---- MODULE Spec2Model ----
(***************************************************************************)
(* A state-machine model of ol::ThreadPool<IsDynamic> (ol_ThreadPool.h):   *)
(* the task queue with its queue-full policies, the worker loop, the       *)
(* dynamic-mode manager thread and stop().  Every thread of the program is *)
(* a process of the model; one action is one stretch of code that runs     *)
(* without releasing m_taskQueueMutex, or one access to an atomic.         *)
(*                                                                         *)
(* Condition variables are modelled without spurious wake-ups: a thread    *)
(* parked in wait()/wait_for() leaves only by notify_one/notify_all or, in *)
(* wait_for(), by the timer.  wait(lock, pred) is `while (!pred())         *)
(* wait(lock)`: the predicate is evaluated with the mutex held (pc         *)
(* "preWait") and the thread then releases the mutex and parks in one      *)
(* atomic step (pc "parked").                                              *)
(***************************************************************************)
EXTENDS Integers, Sequences, FiniteSets, TLC

(***************************************************************************)
(* Bounds of the model.                                                    *)
(***************************************************************************)
\* threadNum given to the fixed-mode constructor
NumThreads == 1
\* threads that call addTask / submitTask on a fixed-mode pool
NumProducers == 1
\* addTask / submitTask calls made on a fixed-mode pool over one behaviour
MaxTasks == 2
\* maxQueueSize given to the fixed-mode constructor
MaxQueue == 1
\* threadNum of the fixed-mode pool that is never stopped
RunThreads == 1
\* threads that call addTask on the pool that is never stopped
NumRunProducers == 1
\* addTask calls made on the pool that is never stopped
RunTasks == 3
\* the largest minThreadNum given to the dynamic-mode constructor (0 is the default)
DynMinThreads == 0
\* maxThreadNum given to the dynamic-mode constructor
DynMaxThreads == 3
\* addTask calls made on a dynamic-mode pool over one behaviour
DynTasks == 5
\* manager cycles over one behaviour
MaxCycles == 3
\* manager cycles over one behaviour in which the pool only grows
ScaleCycles == 2
\* maxThreadNum of the dynamic-mode pool whose manager runs without limit
LoadMaxThreads == 2
\* addTask calls made on that pool
LoadTasks == 3
\* threads that call stop() on the same pool
NumStopCallers == 2
\* threads that call addTask at the same time on a pool with a bounded
\* queue, and the calls they make in all
NumQueueProducers == 2
QueueTasks == 2

Max(a, b) == IF a >= b THEN a ELSE b
Min(a, b) == IF a <= b THEN a ELSE b

\* std::thread::id values; DynMaxThreads + 2 of them, so that a thread can be
\* created while exited threads are still held by m_workers
\* the largest thread number given to a constructor, the calls of addTask on
\* the pool it constructs and the manager cycles observed
CtorMax == 2
CtorTasks == 3
CtorCycles == 2
ThreadIds == 1..(DynMaxThreads + 2)
Producers == 1..NumProducers
RunProducers == 1..NumRunProducers
QueueProducers == 1..NumQueueProducers
\* the single thread that submits to a dynamic-mode pool
DynProducers == {1}
\* the single thread that calls stop()
Stoppers == {1}
\* threads that call stop() concurrently
StopCallers == 1..NumStopCallers

\* QueueFullPolicy
Policies == {"kReject", "kBlock", "kTimeout"}

\* owners of m_taskQueueMutex
Free == <<"free", 0>>
WorkerT(w) == <<"worker", w>>
ProducerT(p) == <<"producer", p>>

VARIABLES
    isDynamic,          \* template parameter IsDynamic
    minThreads,         \* m_dynamic.minThreads
    maxThreads,         \* m_dynamic.maxThreads
    m_maxQueueSize,
    m_stop,
    m_activeWorkers,
    m_taskQueue,        \* sequence of task ids, front first
    m_queueFullPolicy,
    m_workers,          \* thread ids held by the worker container
    idleThreads,        \* m_dynamic.idleThreads
    workerExitNum,      \* m_dynamic.workerExitNum
    workerExitId_deque, \* m_dynamic.workerExitId_deque
    tqMutex,            \* owner of m_taskQueueMutex
    wpc,                \* worker thread -> position in worker()
    wtask,              \* worker thread -> task it executes (0: none)
    ppc,                \* producer -> position in addTask / submitTask
    pkind,              \* producer -> "add" | "submit" | "none"
    pwait,              \* producer -> wait it entered: "block" | "timeout" | "none"
    pres,               \* producer -> bool returned: "true" | "false" | "none"
    pcause,             \* producer -> why addTask returned false
    pmsg,               \* producer -> exception put in the future by submitTask
    ptask,              \* producer -> task id it pushed in this call (0: none)
    calls,              \* addTask / submitTask calls made so far
    callLimit,          \* calls that the callers make in all
    pushed,             \* tasks pushed so far; the next task id is pushed + 1
    executed,           \* task ids whose execution has finished
    mpc,                \* position of the manager thread
    cycles,             \* manager cycles begun
    cycleLimit,         \* manager cycles observed in all (0: no limit, no counting)
    issued,             \* sum of the reductions decided by the manager
    consumed,           \* units of workerExitNum consumed by workers
    spc                 \* thread calling stop() -> position in stop()

\* The networking classes (ol_net): one EventLoop with its thread, one
\* Connection on it, the peer of that connection, and the threads that call
\* Connection::send().  Their state is the record net; its fields follow.
VARIABLE net

\* payloads the peer sends, in order
cliMsgs == net.cliMsgs
\* bytes of the peer's stream that have not arrived yet
cliPending == net.cliPending
\* bytes that have arrived on the socket and are unread
sockIn == net.sockIn
\* bytes written to the socket, in order
sockOut == net.sockOut
\* the peer has shut its side down
peerHup == net.peerHup
\* the socket reports an error
sockErr == net.sockErr
\* Connection::m_inputBuf and Connection::m_outputBuf (bytes)
m_inputBuf == net.m_inputBuf
m_outputBuf == net.m_outputBuf
\* Connection::m_disconnected
m_disconnected == net.m_disconnected
\* Connection::m_lastATime
m_lastATime == net.m_lastATime
\* m_cliChnl is registered with the multiplexer
inEpoll == net.inEpoll
\* m_cliChnl asks for write-readiness
writeInterest == net.writeInterest
\* EventLoop::m_conns and TcpServer::m_conns (descriptors)
m_conns == net.m_conns
srvConns == net.srvConns
\* EventLoop::m_taskQueue, front first
loopQueue == net.loopQueue
\* counter of the eventfd m_wakeUpFd
wakeUpCnt == net.wakeUpCnt
\* m_timerFd is readable
timerDue == net.timerDue
\* the clock, in sweep intervals
now == net.now
\* events returned by the last poll, not yet dispatched
batch == net.batch
\* thread -> position
npc == net.npc
\* thread -> send() call whose data it appends (<<>>: none)
sdata == net.sdata
\* thread -> position it returns to after _sendInLoop
nret == net.nret
\* thread -> send() calls made so far
ncalls == net.ncalls
\* tasks in the order pushToQueue appended them
pushLog == net.pushLog
\* tasks in the order the loop executed them
execLog == net.execLog
\* threads that have changed the state of the Connection
mutators == net.mutators
\* payloads given to the on-message callback, in order
delivered == net.delivered
\* invocations of the user's close callback and of the user's error callback
closeCalls == net.closeCalls
errorCalls == net.errorCalls
\* the events of the connection's channel that handleEvent() saw last, and
\* the callback it invoked for them
lastEv == net.lastEv
lastCb == net.lastCb
\* the process into which the connect() shim is loaded
shim == net.shim
fc == net.fc
lk == net.lk
\* a Buffer on which pickMessage is called: its mode (m_sep), its bytes, the
\* bytes before the last call, the result of the last call, and the calls
pk == net.pk
\* the server facade with its main loop, one sub loop and its clients
srv == net.srv
\* EventLoop::m_stop
loopStop == net.loopStop
\* position of the thread that calls EventLoop::stop()
lspc == net.lspc

\* what no operation of the thread pool changes: the constructor arguments and
\* the state of the networking classes
cfgVars == <<isDynamic, minThreads, maxThreads, m_maxQueueSize, cycleLimit,
             net>>
poolVars == <<m_stop, m_activeWorkers, m_taskQueue, m_queueFullPolicy, m_workers,
              tqMutex>>
dynVars == <<idleThreads, workerExitNum, workerExitId_deque>>
workerVars == <<wpc, wtask>>
prodVars == <<ppc, pkind, pwait, pres, pcause, pmsg, ptask, calls, callLimit, pushed>>
mgrVars == <<mpc, cycles, issued, consumed>>
vars == <<cfgVars, poolVars, dynVars, workerVars, prodVars, mgrVars, executed, spc>>

\* the state of the thread pool, which no operation of the networking classes
\* changes
poolState == <<isDynamic, minThreads, maxThreads, m_maxQueueSize, cycleLimit,
               poolVars, dynVars, workerVars, prodVars, mgrVars, executed, spc>>

\* entries of the blacklist in the configuration file, and the latest time
\* of the day (times are 0..MaxTime)
MaxEntries == 1
MaxTime == 2
\* the process of the shim with configuration file `file`, before its first
\* connect(): the globals as they are initialised (g_InterceptTime is the
\* whole day), nothing called
ShimOf(file, proc) ==
    [file |-> file, proc |-> proc,
     g_bConfigLoaded |-> FALSE,
     g_Blacklist |-> <<>>,
     g_WhitelistProcs |-> {},
     g_InterceptTime |-> [start_time |-> 0, end_time |-> MaxTime],
     pc |-> "idle",
     call |-> [fn |-> "none"],
     ret |-> 0, errno |-> "none", origCalls |-> 0]
\* no such process
NoShim == ShimOf([exists |-> FALSE], "none")
\* threads of one process that make their first connect() at about the same
\* time, and the lines of the configuration file they find
MaxCallers == 2
MaxLines == 2
ShimThreads == 1..MaxCallers
\* the process of the shim whose file holds `lines`, before any connect():
\*   at      lines of the file the body of load_config has read
\*   bodies  callers that have entered the body of load_config
\*   tpc     where each thread is: "idle", "load" in the body of load_config,
\*           "loaded" after load_config has returned, "returned" from connect
\*   call    the destination and time of each thread's connect()
\*   res     what each connect() did: "refuse" or "forward"
FirstCallsOf(lines) ==
    [lines |-> lines, at |-> 0, bodies |-> 0,
     g_bConfigLoaded |-> FALSE,
     g_Blacklist |-> <<>>,
     g_WhitelistProcs |-> {},
     g_InterceptTime |-> [start_time |-> 0, end_time |-> MaxTime],
     tpc |-> [th \in ShimThreads |-> "idle"],
     call |-> [th \in ShimThreads |-> [ip |-> "none", port |-> 0, current |-> 0]],
     res |-> [th \in ShimThreads |-> "none"]]
\* no such process
NoFirstCalls == FirstCallsOf(<<>>)
\* worker threads of the pool whose mutexes are followed
LockWorkers == 2
\* the mutexes of a dynamic-mode pool
Mutexes == {"managerMutex", "m_taskQueueMutex", "m_workersMutex",
            "workerExitId_dequeMutex"}
\* the threads that take them: the manager, the workers, a thread inside
\* addTask or a policy setter, a thread inside getTaskNum or getWorkerNum,
\* and the thread that calls stop()
ManagerT == <<"manager", 0>>
GetterT == <<"getter", 0>>
StopT == <<"stop", 0>>
LockWorkerThreads == {WorkerT(w) : w \in 1..LockWorkers}
LockThreads == {ManagerT, ProducerT(1), GetterT, StopT} \cup LockWorkerThreads
\* a dynamic-mode pool of n workers seen through its mutexes:
\*   owner   the thread that holds each mutex (Free: none)
\*   pc      where each thread is
\*   exitIds the local deque of the manager's clean-up step
LocksOf(n) ==
    [owner |-> [m \in Mutexes |-> Free],
     pc |-> [t \in LockThreads |->
               IF t = ManagerT THEN "top"
               ELSE IF t \in LockWorkerThreads
                    THEN (IF t[2] <= n THEN "top" ELSE "none")
               ELSE "idle"],
     m_stop |-> FALSE,
     m_workers |-> {WorkerT(w) : w \in 1..n},
     workerExitNum |-> 0,
     workerExitId_deque |-> {},
     exitIds |-> {}]
\* no such pool
NoLocks == LocksOf(0)
\* bytes in a Buffer on which pickMessage is called, and calls of it
MaxBuf == 5
MaxPicks == 2
\* a Buffer of mode sep that holds buf
BufferOf(sep, buf) ==
    [sep |-> sep, buf |-> buf, before |-> <<>>,
     res |-> [ok |-> FALSE, s |-> <<>>], calls |-> 0]
\* no such Buffer
NoBuffer == BufferOf(1, <<>>)
\* clients that connect to a server facade
MaxClients == 2
ClientFds == 1..MaxClients
\* the descriptors a facade creates for itself: the listening socket of the
\* Acceptor and, for each loop, the epoll, the eventfd and the timerfd
MainFds == {"mainEpoll", "mainWakeUp", "mainTimer"}
SubFds == {"subEpoll", "subWakeUp", "subTimer"}
OwnFds == {"listen"} \cup MainFds \cup SubFds
\* the channels a facade registers at construction: the Acceptor's and each
\* loop's wake-up and timer channel
OwnChannels ==
    {<<"main", "listen">>, <<"main", "mainWakeUp">>, <<"main", "mainTimer">>,
     <<"sub", "subWakeUp">>, <<"sub", "subTimer">>}
\* the state of a facade of which `own` descriptors are open:
\*   ph        how far start(), stop() and the destructor have got
\*   sub       the thread of the sub loop
\*   mainRun   the main loop is running
\*   joined    the thread of the sub loop has been joined
\*   own       open descriptors among OwnFds, ownReg their channels tracked by
\*             a multiplexer, ownCloses the close() calls on each
\*   backlog   clients that have connected and are not accepted yet
\*   nextFd    the descriptor the next accept returns
\*   open      open descriptors of accepted clients, closes the close() calls
\*   reg       channels of clients tracked by a multiplexer, as <<loop, fd>>
\*   subQueue  newConn tasks marshalled to the sub loop, each owning a socket
\*   m_conns   the registry of the facade,  loopConns the sub loop's
\*   closeReq  connections the sub loop was asked to close
Facade(ownFds, chans) ==
    [ph |-> "new", sub |-> "idle", mainRun |-> FALSE, joined |-> FALSE,
     own |-> ownFds, ownReg |-> chans, ownCloses |-> [d \in OwnFds |-> 0],
     backlog |-> 0, nextFd |-> 1, open |-> {}, closes |-> [c \in ClientFds |-> 0],
     reg |-> {}, subQueue |-> <<>>, m_conns |-> {}, loopConns |-> {},
     closeReq |-> {}]
\* no facade has been constructed
NoFacade == Facade({}, {})

\* the descriptor of the connection
ConnFd == 1
\* EventLoop::m_threadId
LoopThread == 0

\* the networking classes after Connection::Connection and EventLoop::newConn:
\* the peer will send msgs as the byte stream stream, the threads ths exist,
\* the thread of the loop is in poll, and reg is the content of the registries
NetState(msgs, stream, ths, reg) ==
    [cliMsgs |-> msgs, cliPending |-> stream, sockIn |-> <<>>,
     sockOut |-> <<>>, peerHup |-> FALSE, sockErr |-> FALSE,
     m_inputBuf |-> <<>>, m_outputBuf |-> <<>>, m_disconnected |-> FALSE,
     m_lastATime |-> 0, inEpoll |-> reg # {}, writeInterest |-> FALSE,
     m_conns |-> reg, srvConns |-> reg, loopQueue |-> <<>>, wakeUpCnt |-> 0,
     timerDue |-> FALSE, now |-> 0, batch |-> <<>>,
     npc |-> [th \in ths |-> IF th = LoopThread THEN "poll" ELSE "idle"],
     sdata |-> [th \in ths |-> <<>>], nret |-> [th \in ths |-> "none"],
     ncalls |-> [th \in ths |-> 0], pushLog |-> <<>>, execLog |-> <<>>,
     mutators |-> {}, delivered |-> <<>>, closeCalls |-> 0, errorCalls |-> 0,
     loopStop |-> FALSE, lspc |-> "idle", srv |-> NoFacade,
     lastEv |-> {}, lastCb |-> "none", pk |-> NoBuffer, shim |-> NoShim,
     fc |-> NoFirstCalls, lk |-> NoLocks]

\* no TcpServer has been constructed: there is no loop and no connection
NoServer == net = NetState(<<>>, <<>>, {}, {})

(***************************************************************************)
(* Helpers                                                                 *)
(***************************************************************************)
\* m_taskQueue.size() >= m_maxQueueSize, with m_maxQueueSize > 0
QueueFull == m_maxQueueSize > 0 /\ Len(m_taskQueue) >= m_maxQueueSize

\* the predicate of the producers' wait / wait_for
NotFullPred == Len(m_taskQueue) < m_maxQueueSize \/ m_stop

ParkedWorkers == {w \in ThreadIds : wpc[w] = "parked"}
ParkedProducers == {p \in DOMAIN ppc : ppc[p] = "parked"}

\* the process runs: the manager has not trapped on a division by zero
Alive == mpc # "fault"

\* the behaviour counts manager cycles and exit units (cycles, issued, consumed)
Counting == cycleLimit > 0

\* worker threads that have not left the worker loop
LiveWorkers == {w \in m_workers : wpc[w] \in {"created", "loop", "preWait", "parked",
                                               "woken", "run"}}

\* m_taskQueueNotFull_condVar.notify_one(): pp is ppc before the call
NotifyOneNotFull(pp) ==
    IF ParkedProducers = {}
    THEN ppc' = pp
    ELSE \E q \in ParkedProducers : ppc' = [pp EXCEPT ![q] = "woken"]

\* m_taskQueueNotEmpty_condVar.notify_one(): wp is wpc before the call
NotifyOneNotEmpty(wp) ==
    IF ParkedWorkers = {}
    THEN wpc' = wp
    ELSE \E v \in ParkedWorkers : wpc' = [wp EXCEPT ![v] = "woken"]

(***************************************************************************)
(* worker()                                                                *)
(***************************************************************************)
\* the predicate of the workers' wait
WaitCond ==
    \/ m_taskQueue # <<>>
    \/ m_stop
    \/ (isDynamic /\ workerExitNum > 0)

\* variant: the notification is tied to the kTimeout policy alone
WorkerNotifiesOnlyUnderTimeout == m_queueFullPolicy = "kTimeout"

\* the worker notifies a producer after a pop unless the policy is kReject
WorkerNotifiesProducer == m_queueFullPolicy # "kReject"

\* variant: the worker copies the front task and leaves it in the queue
QueueKeepFront(q) == q

\* m_taskQueue.pop(): the front task leaves the queue
QueuePop(q) == Tail(q)

\* the thread starts running worker(): ++idleThreads in dynamic mode
W_Start(w) ==
    /\ Alive
    /\ wpc[w] = "created"
    /\ wpc' = [wpc EXCEPT ![w] = "loop"]
    /\ idleThreads' = IF isDynamic THEN idleThreads + 1 ELSE idleThreads
    /\ UNCHANGED <<cfgVars, poolVars, workerExitNum, workerExitId_deque, wtask,
                   prodVars, mgrVars, executed, spc>>

\* One pass of the loop from `while (!m_stop)`, or from a wake-up inside wait(), up
\* to the point where the mutex is released or the thread is about to park:
\* leave on m_stop, consume one unit of workerExitNum, pop a task, or find the
\* wait predicate false.
W_Enter(w) ==
    /\ Alive
    /\ wpc[w] \in {"loop", "woken"}
    /\ (wpc[w] = "loop" /\ m_stop) \/ tqMutex = Free
    /\ IF m_stop
       THEN /\ wpc' = [wpc EXCEPT ![w] = "exit1"]
            /\ UNCHANGED <<m_taskQueue, tqMutex, idleThreads, workerExitNum, wtask,
                           ppc, consumed>>
       ELSE IF isDynamic /\ workerExitNum > 0
       THEN /\ workerExitNum' = workerExitNum - 1
            /\ consumed' = IF Counting THEN consumed + 1 ELSE consumed
            /\ wpc' = [wpc EXCEPT ![w] = "exit1"]
            /\ UNCHANGED <<m_taskQueue, tqMutex, idleThreads, wtask, ppc>>
       ELSE IF ~WaitCond
       THEN /\ wpc' = [wpc EXCEPT ![w] = "preWait"]
            /\ tqMutex' = WorkerT(w)
            /\ UNCHANGED <<m_taskQueue, idleThreads, workerExitNum, wtask, ppc,
                           consumed>>
       ELSE /\ wtask' = [wtask EXCEPT ![w] = Head(m_taskQueue)]
            /\ m_taskQueue' = QueuePop(m_taskQueue)
            /\ IF WorkerNotifiesProducer
               THEN NotifyOneNotFull(ppc)
               ELSE ppc' = ppc
            /\ idleThreads' = IF isDynamic THEN idleThreads - 1 ELSE idleThreads
            /\ wpc' = [wpc EXCEPT ![w] = "run"]
            /\ UNCHANGED <<tqMutex, workerExitNum, consumed>>
    /\ UNCHANGED <<cfgVars, m_stop, m_activeWorkers, m_queueFullPolicy, m_workers,
                   workerExitId_deque, pkind, pwait, pres, pcause, pmsg, ptask,
                   calls, callLimit, pushed, mpc, cycles, issued, executed, spc>>

\* condition_variable::wait: release the mutex and park, atomically
W_Park(w) ==
    /\ Alive
    /\ wpc[w] = "preWait"
    /\ wpc' = [wpc EXCEPT ![w] = "parked"]
    /\ tqMutex' = Free
    /\ UNCHANGED <<cfgVars, m_stop, m_activeWorkers, m_taskQueue, m_queueFullPolicy,
                   m_workers, dynVars, wtask, prodVars, mgrVars, executed, spc>>

\* what the tasks given to the pool do: every third task throws a
\* std::exception, every third one something else, the others return
TaskThrows(task) ==
    CASE task % 3 = 2 -> "std"
      [] task % 3 = 0 -> "other"
      [] OTHER -> "none"

\* variant: the try around task() has no catch (...)
TaskCatchOnlyStd(thrown) == thrown = "std"

\* the handlers of the try around task(): std::exception and (...)
TaskCatch(thrown) == thrown \in {"std", "other"}

\* task() ends, by returning or by throwing.  What the handlers around it catch
\* is logged and the loop goes on with ++idleThreads; anything else reaches the
\* catch (...) around the loop, and the thread leaves the loop.
W_Run(w) ==
    /\ Alive
    /\ wpc[w] = "run"
    /\ executed' = executed \cup {wtask[w]}
    /\ wtask' = [wtask EXCEPT ![w] = 0]
    /\ IF TaskThrows(wtask[w]) = "none" \/ TaskCatch(TaskThrows(wtask[w]))
       THEN /\ idleThreads' = IF isDynamic THEN idleThreads + 1 ELSE idleThreads
            /\ wpc' = [wpc EXCEPT ![w] = "loop"]
       ELSE /\ idleThreads' = idleThreads
            /\ wpc' = [wpc EXCEPT ![w] = "exit1"]
    /\ UNCHANGED <<cfgVars, poolVars, workerExitNum, workerExitId_deque, prodVars,
                   mgrVars, spc>>

\* after the loop: m_activeWorkers.fetch_sub(1) and, in dynamic mode, --idleThreads
W_Exit1(w) ==
    /\ Alive
    /\ wpc[w] = "exit1"
    /\ m_activeWorkers' = m_activeWorkers - 1
    /\ idleThreads' = IF isDynamic THEN idleThreads - 1 ELSE idleThreads
    /\ wpc' = [wpc EXCEPT ![w] = IF isDynamic THEN "exit2" ELSE "dead"]
    /\ UNCHANGED <<cfgVars, m_stop, m_taskQueue, m_queueFullPolicy, m_workers, tqMutex,
                   workerExitNum, workerExitId_deque, wtask, prodVars, mgrVars,
                   executed, spc>>

\* variant: the exiting worker never reports its id
ExitReportedNever == FALSE

\* `if (!m_stop.load(...))`: the exiting worker reports its id
ExitReported == ~m_stop

\* dynamic mode: report the thread id unless the pool is stopped; the thread ends
W_Exit2(w) ==
    /\ Alive
    /\ wpc[w] = "exit2"
    /\ workerExitId_deque' = IF ExitReported THEN Append(workerExitId_deque, w)
                                             ELSE workerExitId_deque
    /\ wpc' = [wpc EXCEPT ![w] = "dead"]
    /\ UNCHANGED <<cfgVars, poolVars, idleThreads, workerExitNum, wtask, prodVars,
                   mgrVars, executed, spc>>

(***************************************************************************)
(* addTask() and submitTask()                                              *)
(***************************************************************************)
\* variant: the kReject case lacks its `return false` and falls into the kBlock wait
AddTaskOutcomeRejectWaits(p) ==
    IF ppc[p] = "lock"
    THEN IF QueueFull /\ ~m_stop
         THEN CASE m_queueFullPolicy \in {"kReject", "kBlock"} -> "waitBlock"
                [] m_queueFullPolicy = "kTimeout" -> "waitTimeout"
         ELSE IF m_stop THEN "stopped" ELSE "push"
    ELSE IF NotFullPred
         THEN IF m_stop THEN "stopped" ELSE "push"
         ELSE IF ppc[p] = "woken" THEN "rewait" ELSE "timeout"

\* variant: the result of wait_for() is ignored, so a timed-out producer goes
\* round the loop and waits again
AddTaskOutcomeIgnoresTimeout(p) ==
    IF ppc[p] = "lock"
    THEN IF QueueFull /\ ~m_stop
         THEN CASE m_queueFullPolicy = "kReject" -> "reject"
                [] m_queueFullPolicy = "kBlock" -> "waitBlock"
                [] m_queueFullPolicy = "kTimeout" -> "waitTimeout"
         ELSE IF m_stop THEN "stopped" ELSE "push"
    ELSE IF NotFullPred
         THEN IF m_stop THEN "stopped" ELSE "push"
         ELSE "rewait"

\* variant: the waits have no predicate, their result is ignored and the
\* `while` is an `if`, so a producer whose wait has ended pushes without
\* looking at the queue again
AddTaskOutcomeNoRecheck(p) ==
    IF ppc[p] = "lock"
    THEN IF QueueFull /\ ~m_stop
         THEN CASE m_queueFullPolicy = "kReject" -> "reject"
                [] m_queueFullPolicy = "kBlock" -> "waitBlock"
                [] m_queueFullPolicy = "kTimeout" -> "waitTimeout"
         ELSE IF m_stop THEN "stopped" ELSE "push"
    ELSE IF m_stop THEN "stopped" ELSE "push"

\* What addTask does once it holds the mutex: on entry (pc "lock"), after a
\* notification inside wait()/wait_for() (pc "woken"), or after the timer of
\* wait_for() (pc "timedout").
AddTaskOutcome(p) ==
    IF ppc[p] = "lock"
    THEN IF QueueFull /\ ~m_stop
         THEN CASE m_queueFullPolicy = "kReject" -> "reject"
                [] m_queueFullPolicy = "kBlock" -> "waitBlock"
                [] m_queueFullPolicy = "kTimeout" -> "waitTimeout"
         ELSE IF m_stop THEN "stopped" ELSE "push"
    ELSE IF NotFullPred
         THEN IF m_stop THEN "stopped" ELSE "push"
         ELSE IF ppc[p] = "woken" THEN "rewait" ELSE "timeout"

\* the call: `if (m_stop) return false;` before the mutex is taken
P_Call(p, kind) ==
    /\ Alive
    /\ ppc[p] = "idle"
    /\ calls < callLimit
    /\ calls' = calls + 1
    /\ pkind' = [pkind EXCEPT ![p] = kind]
    /\ IF m_stop
       THEN /\ pres' = [pres EXCEPT ![p] = "false"]
            /\ pcause' = [pcause EXCEPT ![p] = "stopped"]
            /\ ppc' = [ppc EXCEPT ![p] = IF kind = "submit" THEN "failed" ELSE "ret"]
       ELSE /\ ppc' = [ppc EXCEPT ![p] = "lock"]
            /\ UNCHANGED <<pres, pcause>>
    /\ UNCHANGED <<cfgVars, poolVars, dynVars, workerVars, pwait, pmsg, ptask,
                   callLimit, pushed, mgrVars, executed, spc>>

\* the stretch of addTask that runs with the mutex held
P_Enter(p) ==
    /\ Alive
    /\ ppc[p] \in {"lock", "woken", "timedout"}
    /\ tqMutex = Free
    /\ LET o == AddTaskOutcome(p) IN
       CASE o = "push" ->
              /\ m_taskQueue' = Append(m_taskQueue, pushed + 1)
              /\ pushed' = pushed + 1
              /\ ptask' = [ptask EXCEPT ![p] = pushed + 1]
              /\ ppc' = [ppc EXCEPT ![p] = "notify"]
              /\ UNCHANGED <<tqMutex, pwait, pres, pcause>>
         [] o \in {"stopped", "reject", "timeout"} ->
              /\ pres' = [pres EXCEPT ![p] = "false"]
              /\ pcause' = [pcause EXCEPT ![p] = o]
              /\ ppc' = [ppc EXCEPT ![p] = IF pkind[p] = "submit" THEN "failed"
                                                                   ELSE "ret"]
              /\ UNCHANGED <<m_taskQueue, tqMutex, pwait, ptask, pushed>>
         [] o \in {"waitBlock", "waitTimeout"} ->
              /\ pwait' = [pwait EXCEPT ![p] = IF o = "waitBlock" THEN "block"
                                                                  ELSE "timeout"]
              /\ ppc' = [ppc EXCEPT ![p] = "preWait"]
              /\ tqMutex' = ProducerT(p)
              /\ UNCHANGED <<m_taskQueue, pres, pcause, ptask, pushed>>
         [] o = "rewait" ->
              /\ ppc' = [ppc EXCEPT ![p] = "preWait"]
              /\ tqMutex' = ProducerT(p)
              /\ UNCHANGED <<m_taskQueue, pwait, pres, pcause, ptask, pushed>>
    /\ UNCHANGED <<cfgVars, m_stop, m_activeWorkers, m_queueFullPolicy, m_workers,
                   dynVars, workerVars, pkind, pmsg, calls, callLimit, mgrVars,
                   executed, spc>>

\* condition_variable::wait / wait_for: release the mutex and park, atomically
P_Park(p) ==
    /\ Alive
    /\ ppc[p] = "preWait"
    /\ ppc' = [ppc EXCEPT ![p] = "parked"]
    /\ tqMutex' = Free
    /\ UNCHANGED <<cfgVars, m_stop, m_activeWorkers, m_taskQueue, m_queueFullPolicy,
                   m_workers, dynVars, workerVars, pkind, pwait, pres, pcause, pmsg,
                   ptask, calls, callLimit, pushed, mgrVars, executed, spc>>

\* m_timeoutMS has elapsed for a producer parked in wait_for()
P_Timeout(p) ==
    /\ Alive
    /\ ppc[p] = "parked"
    /\ pwait[p] = "timeout"
    /\ ppc' = [ppc EXCEPT ![p] = "timedout"]
    /\ UNCHANGED <<cfgVars, poolVars, dynVars, workerVars, pkind, pwait, pres, pcause,
                   pmsg, ptask, calls, callLimit, pushed, mgrVars, executed, spc>>

\* after the push and the unlock: m_taskQueueNotEmpty_condVar.notify_one(); return true
P_Notify(p) ==
    /\ Alive
    /\ ppc[p] = "notify"
    /\ NotifyOneNotEmpty(wpc)
    /\ pres' = [pres EXCEPT ![p] = "true"]
    /\ ppc' = [ppc EXCEPT ![p] = "ret"]
    /\ UNCHANGED <<cfgVars, poolVars, dynVars, wtask, pkind, pwait, pcause, pmsg,
                   ptask, calls, callLimit, pushed, mgrVars, executed, spc>>

\* the exception submitTask stores after addTask returned false: it reads m_stop
\* and m_queueFullPolicy again, without the mutex
SubmitFailMessage ==
    IF m_stop THEN "stopped"
    ELSE CASE m_queueFullPolicy = "kReject" -> "reject"
           [] m_queueFullPolicy = "kBlock" -> "blockStopped"
           [] m_queueFullPolicy = "kTimeout" -> "timeout"

P_SubmitFail(p) ==
    /\ Alive
    /\ ppc[p] = "failed"
    /\ pmsg' = [pmsg EXCEPT ![p] = SubmitFailMessage]
    /\ ppc' = [ppc EXCEPT ![p] = "ret"]
    /\ UNCHANGED <<cfgVars, poolVars, dynVars, workerVars, pkind, pwait, pres, pcause,
                   ptask, calls, callLimit, pushed, mgrVars, executed, spc>>

\* the call has returned; the caller's locals are gone
P_Return(p) ==
    /\ Alive
    /\ ppc[p] = "ret"
    /\ ppc' = [ppc EXCEPT ![p] = "idle"]
    /\ pkind' = [pkind EXCEPT ![p] = "none"]
    /\ pwait' = [pwait EXCEPT ![p] = "none"]
    /\ pres' = [pres EXCEPT ![p] = "none"]
    /\ pcause' = [pcause EXCEPT ![p] = "none"]
    /\ pmsg' = [pmsg EXCEPT ![p] = "none"]
    /\ ptask' = [ptask EXCEPT ![p] = 0]
    /\ UNCHANGED <<cfgVars, poolVars, dynVars, workerVars, calls, callLimit, pushed,
                   mgrVars, executed, spc>>

(***************************************************************************)
(* setRejectPolicy(), setBlockPolicy(), setTimeoutPolicy()                 *)
(***************************************************************************)
SetPolicy(pol) ==
    /\ Alive
    /\ tqMutex = Free
    /\ m_queueFullPolicy' = pol
    /\ UNCHANGED <<cfgVars, m_stop, m_activeWorkers, m_taskQueue, m_workers, tqMutex,
                   dynVars, workerVars, prodVars, mgrVars, executed, spc>>

SetRejectPolicy == SetPolicy("kReject")
SetBlockPolicy == SetPolicy("kBlock")
SetTimeoutPolicy == SetPolicy("kTimeout")

(***************************************************************************)
(* manager() (dynamic mode)                                                *)
(***************************************************************************)
\* (taskCount + workerCount - 1) / workerCount, for workerCount > 0
LoadEstimate(taskCount, workerCount) ==
    (taskCount + workerCount - 1) \div workerCount

\* variant: the headroom maxThreads - workerCount is left out
NeedThreadsNoHeadroom(estimate, workerCount) ==
    Min(estimate, (workerCount \div 2) + 1)

\* needThreads of the scale-up branch; estimate is the load estimate
NeedThreads(estimate, workerCount) ==
    Min(Min(maxThreads - workerCount, estimate), (workerCount \div 2) + 1)

\* the guard of the scale-up branch
ScaleUpCond(taskCount, workerCount) ==
    taskCount > workerCount * 2 /\ workerCount < maxThreads

\* the guard of the scale-down branch
ScaleDownCond(workerCount, idleCount) ==
    idleCount > workerCount \div 2 /\ workerCount > Max(minThreads, 1)

\* reduceThreads of the scale-down branch
ReduceThreads(workerCount, idleCount) ==
    Min(workerCount - Max(minThreads, 1), idleCount - (workerCount \div 2))

\* the n smallest thread ids that m_workers does not hold
RECURSIVE FreshIds(_, _)
FreshIds(n, held) ==
    IF n = 0 THEN {}
    ELSE LET id == CHOOSE i \in ThreadIds \ held :
                       \A j \in ThreadIds \ held : i <= j
         IN {id} \cup FreshIds(n - 1, held \cup {id})

\* the ids of a deque
Range(s) == {s[i] : i \in DOMAIN s}

\* the manager leaves: m_stop seen after wait_for (`return`, the exit deque is
\* kept) or at the top of the loop (the exit deque is cleared)
M_Exit ==
    /\ Alive
    /\ mpc = "sleep"
    /\ m_stop
    /\ mpc' = "done"
    /\ workerExitId_deque' \in {workerExitId_deque, <<>>}
    /\ UNCHANGED <<cfgVars, poolVars, idleThreads, workerExitNum, workerVars, prodVars,
                   cycles, issued, consumed, executed, spc>>

\* wait_for(checkInterval) returns with the pool running; step 1 of the cycle:
\* swap the exit deque out, join and erase every reported thread
M_Cleanup ==
    /\ Alive
    /\ mpc = "sleep"
    /\ ~m_stop
    /\ Counting => cycles < cycleLimit
    /\ LET exitIds == Range(workerExitId_deque) \cap m_workers IN
       /\ \A w \in exitIds : wpc[w] = "dead"
       /\ m_workers' = m_workers \ exitIds
       /\ wpc' = [w \in ThreadIds |-> IF w \in exitIds THEN "none" ELSE wpc[w]]
    /\ workerExitId_deque' = <<>>
    /\ cycles' = IF Counting THEN cycles + 1 ELSE cycles
    /\ mpc' = "scale"
    /\ UNCHANGED <<cfgVars, m_stop, m_activeWorkers, m_taskQueue, m_queueFullPolicy,
                   tqMutex, idleThreads, workerExitNum, wtask, prodVars, issued,
                   consumed, executed, spc>>

\* step 2 of the cycle, with m_taskQueueMutex and m_workersMutex held: scale up,
\* scale down, or neither.  With workerCount = 0 the load estimate divides by
\* zero: the division traps (mpc "fault", the process is gone) or yields 0.
M_Scale ==
    /\ Alive
    /\ mpc = "scale"
    /\ tqMutex = Free
    /\ LET taskCount == Len(m_taskQueue)
           workerCount == Cardinality(m_workers)
           idleCount == idleThreads
       IN
       IF ScaleUpCond(taskCount, workerCount)
       THEN \E trap \in (IF workerCount = 0 THEN BOOLEAN ELSE {FALSE}) :
              IF trap
              THEN /\ mpc' = "fault"
                   /\ UNCHANGED <<m_workers, m_activeWorkers, wpc, workerExitNum, issued>>
              ELSE LET estimate == IF workerCount = 0 THEN 0
                                   ELSE LoadEstimate(taskCount, workerCount)
                       need == NeedThreads(estimate, workerCount)
                       new == FreshIds(need, m_workers)
                   IN /\ need <= Cardinality(ThreadIds \ m_workers)
                      /\ m_workers' = m_workers \cup new
                      /\ m_activeWorkers' = m_activeWorkers + need
                      /\ wpc' = [w \in ThreadIds |-> IF w \in new THEN "created"
                                                                 ELSE wpc[w]]
                      /\ mpc' = "sleep"
                      /\ UNCHANGED <<workerExitNum, issued>>
       ELSE IF ScaleDownCond(workerCount, idleCount)
                 /\ ReduceThreads(workerCount, idleCount) > 0
       THEN LET reduce == ReduceThreads(workerCount, idleCount) IN
            /\ workerExitNum' = reduce
            /\ issued' = IF Counting THEN issued + reduce ELSE issued
            /\ \E S \in SUBSET ParkedWorkers :
                 /\ Cardinality(S) = Min(reduce, Cardinality(ParkedWorkers))
                 /\ wpc' = [w \in ThreadIds |-> IF w \in S THEN "woken" ELSE wpc[w]]
            /\ mpc' = "sleep"
            /\ UNCHANGED <<m_workers, m_activeWorkers>>
       ELSE /\ mpc' = "sleep"
            /\ UNCHANGED <<m_workers, m_activeWorkers, wpc, workerExitNum, issued>>
    /\ UNCHANGED <<cfgVars, m_stop, m_taskQueue, m_queueFullPolicy, tqMutex,
                   idleThreads, workerExitId_deque, wtask, prodVars, cycles, consumed,
                   executed, spc>>

(***************************************************************************)
(* stop()                                                                  *)
(***************************************************************************)
\* variant: a plain exchange(true), which every caller passes
StopExchangesAlways == TRUE

\* compare_exchange_strong(expected = false, true) succeeds
StopExchanges == ~m_stop

\* m_stop.compare_exchange_strong(false, true); a failed exchange returns at once
S_CAS(t) ==
    /\ Alive
    /\ spc[t] = "idle"
    /\ IF ~StopExchanges
       THEN /\ spc' = [spc EXCEPT ![t] = "returned"]
            /\ UNCHANGED m_stop
       ELSE /\ m_stop' = TRUE
            /\ spc' = [spc EXCEPT ![t] = IF isDynamic THEN "joinMgr" ELSE "notify"]
    /\ UNCHANGED <<cfgVars, m_activeWorkers, m_taskQueue, m_queueFullPolicy, m_workers,
                   tqMutex, dynVars, workerVars, prodVars, mgrVars, executed>>

\* dynamic mode: managerThread.join(), then clear the exit deque
S_JoinManager(t) ==
    /\ Alive
    /\ spc[t] = "joinMgr"
    /\ mpc = "done"
    /\ workerExitId_deque' = <<>>
    /\ spc' = [spc EXCEPT ![t] = "notify"]
    /\ UNCHANGED <<cfgVars, poolVars, idleThreads, workerExitNum, workerVars, prodVars,
                   mgrVars, executed>>

\* notify_all() on both condition variables
S_NotifyAll(t) ==
    /\ Alive
    /\ spc[t] = "notify"
    /\ wpc' = [w \in ThreadIds |-> IF wpc[w] = "parked" THEN "woken" ELSE wpc[w]]
    /\ ppc' = [p \in DOMAIN ppc |-> IF ppc[p] = "parked" THEN "woken" ELSE ppc[p]]
    /\ spc' = [spc EXCEPT ![t] = "waitActive"]
    /\ UNCHANGED <<cfgVars, poolVars, dynVars, wtask, pkind, pwait, pres, pcause, pmsg,
                   ptask, calls, callLimit, pushed, mgrVars, executed>>

\* the loop that sleeps while m_activeWorkers > 0: it ends when the count is 0
\* or after 5 seconds, whichever comes first
S_WaitActive(t) ==
    /\ Alive
    /\ spc[t] = "waitActive"
    /\ spc' = [spc EXCEPT ![t] = "join"]
    /\ UNCHANGED <<cfgVars, poolVars, dynVars, workerVars, prodVars, mgrVars, executed>>

\* join every worker thread (each join returns when that thread has ended),
\* then m_workers.clear()
S_Join(t) ==
    /\ Alive
    /\ spc[t] = "join"
    /\ \A w \in m_workers : wpc[w] = "dead"
    /\ m_workers' = {}
    /\ spc' = [spc EXCEPT ![t] = "done"]
    /\ UNCHANGED <<cfgVars, m_stop, m_activeWorkers, m_taskQueue, m_queueFullPolicy,
                   tqMutex, dynVars, workerVars, prodVars, mgrVars, executed>>

\* stop() has returned to its caller, who calls it again later (the destructor
\* calls stop() too)
S_Again(t) ==
    /\ Alive
    /\ spc[t] \in {"done", "returned"}
    /\ spc' = [spc EXCEPT ![t] = "idle"]
    /\ UNCHANGED <<cfgVars, poolVars, dynVars, workerVars, prodVars, mgrVars, executed>>

(***************************************************************************)
(* The pool after construction                                             *)
(***************************************************************************)
\* what both constructors set, with n worker threads created; prods are the
\* threads that will call addTask / submitTask, limit calls in all; stoppers
\* are the threads that will call stop()
InitPoolAs(stop, n, prods, limit, stoppers) ==
    /\ m_stop = stop
    /\ m_activeWorkers = n
    /\ m_taskQueue = <<>>
    /\ m_workers = 1..n
    /\ idleThreads = 0
    /\ workerExitNum = 0
    /\ workerExitId_deque = <<>>
    /\ tqMutex = Free
    /\ wpc = [w \in ThreadIds |-> IF w <= n THEN "created" ELSE "none"]
    /\ wtask = [w \in ThreadIds |-> 0]
    /\ ppc = [p \in prods |-> "idle"]
    /\ pkind = [p \in prods |-> "none"]
    /\ pwait = [p \in prods |-> "none"]
    /\ pres = [p \in prods |-> "none"]
    /\ pcause = [p \in prods |-> "none"]
    /\ pmsg = [p \in prods |-> "none"]
    /\ ptask = [p \in prods |-> 0]
    /\ calls = 0
    /\ callLimit = limit
    /\ pushed = 0
    /\ executed = {}
    /\ cycles = 0
    /\ issued = 0
    /\ consumed = 0
    /\ spc = [t \in stoppers |-> "idle"]

\* a constructor that has created n >= 1 worker threads
InitPool(n, prods, limit, stoppers) == InitPoolAs(FALSE, n, prods, limit, stoppers)

\* a constructor that never leaves the pool stopped
CtorNeverStops(dyn, a, b) == FALSE

\* both constructors: `m_stop = true; return;` for threadNum a = 0 (fixed) and
\* for minThreadNum a = maxThreadNum b = 0 (dynamic)
CtorStops(dyn, a, b) == IF dyn THEN a = b /\ a = 0 ELSE a = 0

\* both constructors: the worker threads created, threadNum (fixed) or
\* `minThreadNum == 0 ? 1 : minThreadNum` (dynamic)
CtorThreads(dyn, a) == IF dyn /\ a = 0 THEN 1 ELSE a

\* ThreadPool<false>(a) and ThreadPool<true>(a, b) for any a and b <= CtorMax
\* that the dynamic constructor does not throw on.  A constructor that
\* returns early starts no thread, the manager included, and leaves m_dynamic
\* as it was; no step of a stopped pool reads it.
InitCtor ==
    \E dyn \in BOOLEAN, a \in 0..CtorMax, b \in 0..CtorMax :
        /\ IF dyn THEN a <= b ELSE b = 0
        /\ isDynamic = dyn
        /\ minThreads = (IF dyn THEN a ELSE 0)
        /\ maxThreads = b
        /\ m_maxQueueSize = 0
        /\ m_queueFullPolicy = "kReject"
        /\ mpc = (IF dyn /\ ~CtorStops(dyn, a, b) THEN "sleep" ELSE "none")
        /\ cycleLimit = CtorCycles
        /\ NoServer
        /\ InitPoolAs(CtorStops(dyn, a, b),
                      IF CtorStops(dyn, a, b) THEN 0 ELSE CtorThreads(dyn, a),
                      DynProducers, CtorTasks, Stoppers)

\* ThreadPool<false>(n, MaxQueue), the policy then set to pol
InitFixedWith(n, pol, prods, limit, stoppers) ==
    /\ isDynamic = FALSE
    /\ minThreads = 0
    /\ maxThreads = 0
    /\ m_maxQueueSize = MaxQueue
    /\ m_queueFullPolicy = pol
    /\ mpc = "none"
    /\ cycleLimit = 0
    /\ NoServer
    /\ InitPool(n, prods, limit, stoppers)

\* ThreadPool<false>(NumThreads, MaxQueue): the constructor sets kReject
InitFixed == InitFixedWith(NumThreads, "kReject", Producers, MaxTasks, Stoppers)

\* ThreadPool<true>(minThreadNum, maxT, 0), 0 <= minThreadNum <= DynMinThreads;
\* limit calls of addTask are made, cyc manager cycles are observed
InitDynamicWith(maxT, limit, cyc) ==
    /\ isDynamic = TRUE
    /\ minThreads \in 0..DynMinThreads
    /\ maxThreads = maxT
    /\ m_maxQueueSize = 0
    /\ m_queueFullPolicy = "kReject"
    /\ mpc = "sleep"
    /\ cycleLimit = cyc
    /\ NoServer
    /\ InitPool(IF minThreads = 0 THEN 1 ELSE minThreads, DynProducers, limit,
                Stoppers)

\* ThreadPool<true>(minThreadNum, DynMaxThreads, 0)
InitDynamic == InitDynamicWith(DynMaxThreads, DynTasks, MaxCycles)

\* a dynamic-mode pool that has scaled up to n workers and has executed every
\* task given to it: the queue is empty and the n workers are idle, at the head
\* of their loop; no further task is submitted
InitIdle ==
    /\ isDynamic = TRUE
    /\ minThreads \in 0..DynMinThreads
    /\ maxThreads = DynMaxThreads
    /\ m_maxQueueSize = 0
    /\ m_queueFullPolicy = "kReject"
    /\ mpc = "sleep"
    /\ cycleLimit = 0
    /\ NoServer
    /\ \E n \in Max(minThreads, 1)..maxThreads :
         /\ m_activeWorkers = n
         /\ m_workers = 1..n
         /\ idleThreads = n
         /\ wpc = [w \in ThreadIds |-> IF w <= n THEN "loop" ELSE "none"]
    /\ m_stop = FALSE
    /\ m_taskQueue = <<>>
    /\ workerExitNum = 0
    /\ workerExitId_deque = <<>>
    /\ tqMutex = Free
    /\ wtask = [w \in ThreadIds |-> 0]
    /\ ppc = [p \in DynProducers |-> "idle"]
    /\ pkind = [p \in DynProducers |-> "none"]
    /\ pwait = [p \in DynProducers |-> "none"]
    /\ pres = [p \in DynProducers |-> "none"]
    /\ pcause = [p \in DynProducers |-> "none"]
    /\ pmsg = [p \in DynProducers |-> "none"]
    /\ ptask = [p \in DynProducers |-> 0]
    /\ calls = 0
    /\ callLimit = 0
    /\ pushed = 0
    /\ executed = {}
    /\ cycles = 0
    /\ issued = 0
    /\ consumed = 0
    /\ spc = [t \in Stoppers |-> "idle"]

(***************************************************************************)
(* Specifications                                                          *)
(***************************************************************************)
\* a fixed-mode pool with producers, policy changes and stop()
NextFixed ==
    \/ \E w \in ThreadIds : W_Start(w)
    \/ \E w \in ThreadIds : W_Enter(w)
    \/ \E w \in ThreadIds : W_Park(w)
    \/ \E w \in ThreadIds : W_Run(w)
    \/ \E w \in ThreadIds : W_Exit1(w)
    \/ \E p \in Producers : \E kind \in {"add", "submit"} : P_Call(p, kind)
    \/ \E p \in Producers : P_Enter(p)
    \/ \E p \in Producers : P_Park(p)
    \/ \E p \in Producers : P_Timeout(p)
    \/ \E p \in Producers : P_Notify(p)
    \/ \E p \in Producers : P_SubmitFail(p)
    \/ \E p \in Producers : P_Return(p)
    \/ SetRejectPolicy
    \/ SetBlockPolicy
    \/ SetTimeoutPolicy
    \/ \E t \in Stoppers : S_CAS(t)
    \/ \E t \in Stoppers : S_NotifyAll(t)
    \/ \E t \in Stoppers : S_WaitActive(t)
    \/ \E t \in Stoppers : S_Join(t)

Spec == InitFixed /\ [][NextFixed]_vars

\* a fixed-mode pool that is never stopped and whose policy was set once, before
\* the first call; the callers use addTask
NextRunning ==
    \/ \E w \in ThreadIds : W_Start(w)
    \/ \E w \in ThreadIds : W_Enter(w)
    \/ \E w \in ThreadIds : W_Park(w)
    \/ \E w \in ThreadIds : W_Run(w)
    \/ \E p \in RunProducers : P_Call(p, "add")
    \/ \E p \in RunProducers : P_Enter(p)
    \/ \E p \in RunProducers : P_Park(p)
    \/ \E p \in RunProducers : P_Notify(p)
    \/ \E p \in RunProducers : P_Return(p)

\* every thread that can take a step of worker() or addTask() eventually takes
\* it, and the timer of wait_for() eventually fires.  When a call is made is up
\* to the caller.
FairRunning ==
    /\ \A w \in ThreadIds : WF_vars(W_Start(w) \/ W_Enter(w) \/ W_Park(w) \/ W_Run(w))
    /\ \A p \in RunProducers :
         WF_vars(P_Enter(p) \/ P_Park(p) \/ P_Timeout(p) \/ P_Notify(p) \/ P_Return(p))

\* ThreadPool<false>(RunThreads, MaxQueue), then setBlockPolicy()
SpecBlock ==
    /\ InitFixedWith(RunThreads, "kBlock", RunProducers, RunTasks, Stoppers)
    /\ [][NextRunning]_vars
    /\ FairRunning

\* the same pool with the timer of wait_for()
NextTimeout == NextRunning \/ \E p \in RunProducers : P_Timeout(p)

\* ThreadPool<false>(RunThreads, MaxQueue), then setTimeoutPolicy(t)
SpecTimeout ==
    /\ InitFixedWith(RunThreads, "kTimeout", RunProducers, RunTasks, Stoppers)
    /\ [][NextTimeout]_vars
    /\ FairRunning

\* a fixed-mode pool with a bounded queue that is never stopped: several
\* threads call addTask while the policy is changed at any time
NextQueue ==
    \/ \E w \in ThreadIds : W_Start(w)
    \/ \E w \in ThreadIds : W_Enter(w)
    \/ \E w \in ThreadIds : W_Park(w)
    \/ \E w \in ThreadIds : W_Run(w)
    \/ \E p \in QueueProducers : P_Call(p, "add")
    \/ \E p \in QueueProducers : P_Enter(p)
    \/ \E p \in QueueProducers : P_Park(p)
    \/ \E p \in QueueProducers : P_Timeout(p)
    \/ \E p \in QueueProducers : P_Notify(p)
    \/ \E p \in QueueProducers : P_Return(p)
    \/ SetRejectPolicy
    \/ SetBlockPolicy
    \/ SetTimeoutPolicy

\* ThreadPool<false>(RunThreads, MaxQueue) with NumQueueProducers producers
SpecQueue ==
    /\ InitFixedWith(RunThreads, "kReject", QueueProducers, QueueTasks, Stoppers)
    /\ [][NextQueue]_vars

\* a running dynamic-mode pool: workers, the manager and one submitting thread
NextDynamic ==
    \/ \E w \in ThreadIds : W_Start(w)
    \/ \E w \in ThreadIds : W_Enter(w)
    \/ \E w \in ThreadIds : W_Park(w)
    \/ \E w \in ThreadIds : W_Run(w)
    \/ \E w \in ThreadIds : W_Exit1(w)
    \/ \E w \in ThreadIds : W_Exit2(w)
    \/ \E p \in DynProducers : P_Call(p, "add")
    \/ \E p \in DynProducers : P_Enter(p)
    \/ \E p \in DynProducers : P_Notify(p)
    \/ \E p \in DynProducers : P_Return(p)
    \/ M_Cleanup
    \/ M_Scale

SpecDynamic == InitDynamic /\ [][NextDynamic]_vars

\* a pool of either mode just constructed, to which CtorTasks tasks are given
SpecCtor == InitCtor /\ [][NextDynamic]_vars

\* the same pool observed over ScaleCycles manager cycles
SpecScale ==
    InitDynamicWith(DynMaxThreads, DynTasks, ScaleCycles) /\ [][NextDynamic]_vars

\* the manager thread, every worker thread and the thread inside addTask
\* eventually take the step they can take.  When a call is made is up to the
\* caller.
FairDynamic ==
    /\ WF_vars(M_Cleanup \/ M_Scale)
    /\ \A w \in ThreadIds :
         WF_vars(W_Start(w) \/ W_Enter(w) \/ W_Park(w) \/ W_Run(w) \/ W_Exit1(w)
                 \/ W_Exit2(w))
    /\ \A p \in DynProducers : WF_vars(P_Enter(p) \/ P_Notify(p) \/ P_Return(p))

\* a running dynamic-mode pool whose manager cycles for ever
SpecLoad ==
    /\ InitDynamicWith(LoadMaxThreads, LoadTasks, 0)
    /\ [][NextDynamic]_vars
    /\ FairDynamic

\* an idle dynamic-mode pool to which nothing is submitted
NextIdle ==
    \/ \E w \in ThreadIds : W_Enter(w)
    \/ \E w \in ThreadIds : W_Park(w)
    \/ \E w \in ThreadIds : W_Exit1(w)
    \/ \E w \in ThreadIds : W_Exit2(w)
    \/ M_Cleanup
    \/ M_Scale

SpecIdle == InitIdle /\ [][NextIdle]_vars /\ FairDynamic

\* a fixed-mode pool on which several threads call stop(), each more than once
NextStop ==
    \/ \E w \in ThreadIds : W_Start(w)
    \/ \E w \in ThreadIds : W_Enter(w)
    \/ \E w \in ThreadIds : W_Park(w)
    \/ \E w \in ThreadIds : W_Run(w)
    \/ \E w \in ThreadIds : W_Exit1(w)
    \/ \E p \in DynProducers : P_Call(p, "add")
    \/ \E p \in DynProducers : P_Enter(p)
    \/ \E p \in DynProducers : P_Notify(p)
    \/ \E p \in DynProducers : P_Return(p)
    \/ \E t \in StopCallers : S_CAS(t)
    \/ \E t \in StopCallers : S_NotifyAll(t)
    \/ \E t \in StopCallers : S_WaitActive(t)
    \/ \E t \in StopCallers : S_Join(t)
    \/ \E t \in StopCallers : S_Again(t)

\* ThreadPool<false>(RunThreads, MaxQueue) with NumStopCallers threads calling stop()
SpecStop ==
    /\ InitFixedWith(RunThreads, "kReject", DynProducers, MaxTasks, StopCallers)
    /\ [][NextStop]_vars

(***************************************************************************)
(* Properties                                                              *)
(***************************************************************************)
\* a step of a thread that is inside worker(), addTask()/submitTask() or stop()
ThreadStep ==
    \/ \E w \in ThreadIds : W_Start(w) \/ W_Enter(w) \/ W_Park(w) \/ W_Run(w) \/ W_Exit1(w)
    \/ \E p \in Producers : P_Enter(p) \/ P_Park(p) \/ P_Timeout(p) \/ P_Notify(p)
                            \/ P_SubmitFail(p) \/ P_Return(p)
    \/ \E t \in DOMAIN spc : S_NotifyAll(t) \/ S_WaitActive(t) \/ S_Join(t)

\* C1: under kReject with maxQueueSize > 0, an addTask that finds the queue full
\* when it holds the mutex returns false in that step: it does not enter a wait
\* and the queue is unchanged.
C1_RejectReturnsAtOnce ==
    [][\A p \in DOMAIN ppc :
         (/\ ppc[p] = "lock"
          /\ ppc'[p] # "lock"
          /\ QueueFull
          /\ m_queueFullPolicy = "kReject")
         => (/\ pres'[p] = "false"
             /\ ppc'[p] \in {"ret", "failed"}
             /\ m_taskQueue' = m_taskQueue)]_vars

\* C1 witness: a call has returned false because the queue was full under kReject,
\* and the queue still holds maxQueueSize tasks
C1_Witness ==
    \E p \in DOMAIN ppc :
        /\ ppc[p] = "ret"
        /\ pres[p] = "false"
        /\ pcause[p] = "reject"
        /\ Len(m_taskQueue) = m_maxQueueSize

\* C2: under kBlock on a pool that is not stopped, addTask never returns false,
\* and a producer parked on the full queue eventually returns true.
C2_BlockEventuallySucceeds ==
    /\ [](\A p \in RunProducers : pres[p] # "false")
    /\ \A p \in RunProducers : (ppc[p] = "parked") ~> (pres[p] = "true")

\* C2 witness: a call that waited under kBlock has returned true
C2_Witness ==
    \E p \in DOMAIN ppc :
        /\ ppc[p] = "ret"
        /\ pwait[p] = "block"
        /\ pres[p] = "true"
        /\ ptask[p] # 0

\* C3: stop() on a running pool terminates: while stop() is between its
\* exchange on m_stop and its return, some thread of the pool can still take a
\* step (stop() is never left waiting for threads that all wait themselves).
C3_StopTerminates ==
    (\E t \in DOMAIN spc : spc[t] \in {"notify", "waitActive", "join"})
        => ENABLED ThreadStep

\* C4: every submitTask ends either with (true, future) and its task pushed, or
\* with (false, future) whose exception names why addTask failed, and no task
\* pushed.  An exception that says the pool is stopped names the cause when the
\* pool is stopped.
C4_SubmitOutcome ==
    \A p \in DOMAIN ppc :
        (ppc[p] = "ret" /\ pkind[p] = "submit") =>
            \/ pres[p] = "true" /\ ptask[p] # 0 /\ pmsg[p] = "none"
            \/ /\ pres[p] = "false"
               /\ ptask[p] = 0
               /\ \/ pmsg[p] = pcause[p]
                  \/ pmsg[p] = "stopped" /\ m_stop

\* the tasks of the calls that have returned true
Accepted ==
    {t \in 1..pushed : \A p \in DOMAIN ppc : ~(ppc[p] = "notify" /\ ptask[p] = t)}

\* C5: when stop() has returned, every task that addTask accepted has been
\* executed and every worker thread has ended.
C5_StopAfterAllTasksRan ==
    (\E s \in DOMAIN spc : spc[s] = "done") =>
        /\ \A t \in Accepted : t \in executed
        /\ \A w \in ThreadIds : wpc[w] \in {"none", "dead"}

\* C6: under kTimeout on a pool that is not stopped, a producer whose wait_for
\* timed out with the queue still full returns false and pushes nothing; one that
\* finds a free slot after a notification or at the time-out pushes its task; no
\* producer stays in the wait for ever, and a pushed task's call returns true.
C6_TimeoutPolicy ==
    /\ [][\A p \in RunProducers :
            /\ (ppc[p] = "timedout" /\ ppc'[p] # "timedout" /\ QueueFull)
               => (pres'[p] = "false" /\ ppc'[p] = "ret" /\ m_taskQueue' = m_taskQueue)
            /\ (ppc[p] \in {"woken", "timedout"} /\ ppc'[p] # ppc[p] /\ ~QueueFull)
               => (ppc'[p] = "notify" /\ ptask'[p] # 0)]_vars
    /\ \A p \in RunProducers : (ppc[p] = "parked") ~> (ppc[p] = "ret")
    /\ \A p \in RunProducers : (ppc[p] = "notify") ~> (pres[p] = "true")

\* C6 witness: a call has returned false after its wait_for timed out
C6_Witness ==
    \E p \in DOMAIN ppc :
        /\ ppc[p] = "ret"
        /\ pwait[p] = "timeout"
        /\ pres[p] = "false"
        /\ pcause[p] = "timeout"

\* C7: in dynamic mode, while the pool runs, at least max(minThreads, 1) worker
\* threads are in the worker loop.
C7_LiveWorkersAtLeastMin ==
    (isDynamic /\ ~m_stop /\ Alive) => Cardinality(LiveWorkers) >= Max(minThreads, 1)

\* C8: every unit that a scale-down decision puts into workerExitNum is either
\* still in the counter or was consumed by exactly one worker that then left:
\* the workers that left number the reductions decided, less the units pending.
C8_ExitUnitsAccounted ==
    isDynamic => consumed + workerExitNum = issued

\* C9: a manager cycle adds workers only when taskCount > 2 * workerCount and
\* workerCount < maxThreads, and the count after the cycle is at most
\* maxThreads and at most 1.5 times the count before it.
C9_ScaleUpBounded ==
    [][(mpc = "scale" /\ mpc' = "sleep") =>
         LET before == Cardinality(m_workers)
             after == Cardinality(m_workers')
         IN /\ (after > before => ScaleUpCond(Len(m_taskQueue), before))
            /\ after <= maxThreads
            /\ 2 * after <= 3 * before]_vars

\* C10: in dynamic mode m_workers never holds more than maxThreads threads.
C10_WorkersAtMostMax ==
    isDynamic => Cardinality(m_workers) <= maxThreads

\* C10 witness: the manager has scaled the pool up to maxThreads workers
C10_Witness ==
    /\ isDynamic
    /\ cycles > 0
    /\ Cardinality(m_workers) = maxThreads
    /\ Cardinality(m_workers) > Max(minThreads, 1)

\* the callers that are inside the shutdown sequence of stop()
InShutdown == {t \in DOMAIN spc : spc[t] \in {"joinMgr", "notify", "waitActive", "join"}}

\* C11: stop() is idempotent.  The shutdown sequence is entered only by a caller
\* whose exchange found m_stop false, at most one caller is inside it, a call
\* that finds m_stop true returns in that step and changes nothing of the pool,
\* and m_stop, once true, stays true (isRunning() stays false).
C11_StopIdempotent ==
    /\ [](Cardinality(InShutdown) <= 1)
    /\ [][/\ m_stop => m_stop'
          /\ \A t \in DOMAIN spc :
                (spc[t] = "idle" /\ spc'[t] # "idle") =>
                    IF m_stop
                    THEN /\ spc'[t] = "returned"
                         /\ UNCHANGED <<cfgVars, poolVars, dynVars, workerVars,
                                        prodVars, mgrVars, executed>>
                    ELSE /\ m_stop'
                         /\ InShutdown = {}]_vars

\* C11 witness: one caller is inside the shutdown sequence, and a concurrent call
\* of another thread has returned from its failed exchange
C11_Witness ==
    \E t, u \in DOMAIN spc :
        /\ spc[t] = "join"
        /\ spc[u] = "returned"
        /\ m_stop

\* C12: when a task ends by throwing, the worker that ran it is back at the head
\* of its loop, m_activeWorkers and m_workers are unchanged, and in dynamic mode
\* idleThreads is incremented again.
C12_TaskExceptionCaught ==
    [][\A w \in ThreadIds :
         (/\ wpc[w] = "run"
          /\ wpc'[w] # "run"
          /\ TaskThrows(wtask[w]) # "none")
         => (/\ wpc'[w] = "loop"
             /\ m_activeWorkers' = m_activeWorkers
             /\ m_workers' = m_workers
             /\ isDynamic => idleThreads' = idleThreads + 1)]_vars

\* C12 witness: a task that throws something other than a std::exception has
\* been executed, and so has the task queued after it, with no worker gone
C12_Witness ==
    /\ isDynamic
    /\ \E t \in executed :
         /\ TaskThrows(t) = "other"
         /\ t + 1 \in executed
    /\ m_activeWorkers = Cardinality(m_workers)
    /\ consumed = 0

\* C13: whenever the pool keeps running with more than twice as many queued
\* tasks as workers, the number of workers reaches maxThreads: at every time,
\* later the pool is stopped, or the queue holds at most twice as many tasks as
\* there are workers, or there are maxThreads workers.
C13_ScaleUpReachesMax ==
    []<>(\/ m_stop
         \/ Len(m_taskQueue) <= 2 * Cardinality(m_workers)
         \/ Cardinality(m_workers) = maxThreads)

\* C14: with nothing submitted and the workers idle, the number of workers comes
\* down to max(minThreads, 1) and stays there, all of them live.
C14_ScaleDownReachesMin ==
    <>[](/\ Cardinality(m_workers) = Max(minThreads, 1)
         /\ LiveWorkers = m_workers)

\* C15: on a running dynamic-mode pool the exit deque holds no id twice; a
\* worker held by m_workers has ended exactly when its id is in the deque; the
\* manager erases from m_workers only reported ids, and its clean-up step
\* erases every reported id; every worker that has ended is erased later.
C15_ExitReportedAndCleaned ==
    /\ [](\A i, j \in DOMAIN workerExitId_deque :
            i # j => workerExitId_deque[i] # workerExitId_deque[j])
    /\ []((isDynamic /\ ~m_stop) =>
            \A w \in m_workers : wpc[w] = "dead" <=> w \in Range(workerExitId_deque))
    /\ [][/\ (m_workers \ m_workers') \subseteq Range(workerExitId_deque)
          /\ (mpc = "sleep" /\ mpc' = "scale")
                => m_workers' = m_workers \ Range(workerExitId_deque)]_vars
    /\ \A w \in ThreadIds : (wpc[w] = "dead") ~> (w \notin m_workers)

\* C15 witness: the first worker of the pool has left on a scale-down and the
\* manager's clean-up has just erased it
C15_Witness ==
    /\ isDynamic
    /\ ~m_stop
    /\ mpc = "scale"
    /\ wpc[1] = "none"
    /\ 1 \notin m_workers
    /\ workerExitId_deque = <<>>

(***************************************************************************)
(* The networking classes (ol_net).  Their member functions are declared   *)
(* in the headers; what the functions do is taken from the design          *)
(* description of sections 4.2, 4.4, 4.5 and 5 to 7.  A byte is a number   *)
(* in 0..255 and a buffer is a sequence of bytes.                          *)
(***************************************************************************)
\* payloads of at most MaxPayload bytes, at most MaxMsgs of them sent by the
\* peer
MaxMsgs == 2
MaxPayload == 1
\* threads other than the loop's thread that call Connection::send()
NetSenders == 2
\* send() calls that the threads make in all
MaxSends == 3
\* ticks of the sweep timer in one behaviour
MaxNow == 2
\* the idle timeout given to the EventLoop, in sweep intervals
IdleLimit == 1
\* bytes written to the socket by one write at most
MaxWrite == 3
\* bytes of the length header of framing mode 1
HeaderSize == 4
\* the byte values a payload of the peer is made of
PayloadBytes == {0, 1}
\* the ids of the threads other than the loop's
SenderThreads == 1..NetSenders
NetThreads == {LoopThread} \cup SenderThreads

\* s is a prefix of t
IsPrefix(s, t) == Len(s) <= Len(t) /\ SubSeq(t, 1, Len(s)) = s
\* the sequences of at most n elements of S
SeqsUpTo(S, n) == UNION {[1..k -> S] : k \in 0..n}
\* the orders in which the elements of S can be returned
Perms(S) ==
    {f \in [1..Cardinality(S) -> S] :
        \A i, j \in 1..Cardinality(S) : f[i] = f[j] => i = j}

\* the 4-byte header that holds the length n (an int copied byte by byte)
Header(n) ==
    <<n % 256, (n \div 256) % 256, (n \div 65536) % 256, (n \div 16777216) % 256>>
\* the length held by the header at the front of buf
HeaderValue(buf) == buf[1] + 256 * buf[2] + 65536 * buf[3] + 16777216 * buf[4]

\* Buffer::append
append(buf, data) == buf \o data
\* Buffer::appendWithSep: the header, then the data
appendWithSep(buf, data) == append(append(buf, Header(Len(data))), data)

\* pickMessage reading only the header before it extracts
PickReadyHeaderOnly(buf) == Len(buf) >= HeaderSize
\* Buffer::pickMessage finds a complete message in buf: the header, and as
\* many bytes after it as the header declares
PickReady(buf) ==
    /\ Len(buf) >= HeaderSize
    /\ Len(buf) >= HeaderSize + HeaderValue(buf)

\* Buffer::pickMessage: the message extracted (s), the buffer after it was
\* erased, and the value returned
pickMessage(buf) ==
    IF PickReady(buf)
    THEN LET n == HeaderValue(buf)
             last == Min(HeaderSize + n, Len(buf))
         IN  [ok |-> TRUE,
              s |-> SubSeq(buf, HeaderSize + 1, last),
              buf |-> SubSeq(buf, last + 1, Len(buf))]
    ELSE [ok |-> FALSE, s |-> <<>>, buf |-> buf]

\* the terminator of framing mode 2, "\r\n\r\n"
Delimiter == <<13, 10, 13, 10>>
\* the positions of buf at which the terminator starts
DelimiterAt(buf) ==
    {i \in 1..Len(buf) :
        /\ i + Len(Delimiter) - 1 <= Len(buf)
        /\ SubSeq(buf, i, i + Len(Delimiter) - 1) = Delimiter}
\* a pickMessage of mode 2 that discards what it cannot extract
pickDelimitedDrop(buf) ==
    IF DelimiterAt(buf) = {} THEN [ok |-> FALSE, s |-> <<>>, buf |-> <<>>]
    ELSE LET i == CHOOSE j \in DelimiterAt(buf) : \A k \in DelimiterAt(buf) : j <= k
         IN  [ok |-> TRUE,
              s |-> SubSeq(buf, 1, i - 1),
              buf |-> SubSeq(buf, i + Len(Delimiter), Len(buf))]

\* Buffer::pickMessage, mode 2: the bytes before the first terminator
pickDelimited(buf) ==
    IF DelimiterAt(buf) = {} THEN [ok |-> FALSE, s |-> <<>>, buf |-> buf]
    ELSE LET i == CHOOSE j \in DelimiterAt(buf) : \A k \in DelimiterAt(buf) : j <= k
         IN  [ok |-> TRUE,
              s |-> SubSeq(buf, 1, i - 1),
              buf |-> SubSeq(buf, i + Len(Delimiter), Len(buf))]

\* Buffer::pickMessage of a Buffer of mode sep
pickMessageOf(sep, buf) ==
    IF sep = 2 THEN pickDelimited(buf) ELSE pickMessage(buf)

\* pickMessage called until it returns false: the messages and what is left
RECURSIVE ExtractAll(_)
ExtractAll(buf) ==
    LET r == pickMessage(buf)
    IN  IF ~r.ok THEN [msgs |-> <<>>, buf |-> buf]
        ELSE LET more == ExtractAll(r.buf)
             IN  [msgs |-> <<r.s>> \o more.msgs, buf |-> more.buf]

\* the byte stream of the messages msgs sent back to back under framing mode 1
RECURSIVE Wire(_)
Wire(msgs) ==
    IF msgs = <<>> THEN <<>>
    ELSE appendWithSep(<<>>, Head(msgs)) \o Wire(Tail(msgs))

\* a timeout that takes one interval more
timeoutLate(t, val) == t - m_lastATime > val + 1
\* Connection::timeout(now, val)
timeout(t, val) == t - m_lastATime > val

(***************************************************************************)
(* Connection::send and EventLoop::pushToQueue                             *)
(***************************************************************************)
\* send() that takes every caller for the loop's thread
IsInLoopThreadAlways(th) == TRUE
\* EventLoop::isInLoopThread, called by thread th
IsInLoopThread(th) == th = LoopThread

\* a task put at the front of the queue
EnqueueFront(q, task) == <<task>> \o q
\* pushToQueue: m_taskQueue.push(func)
Enqueue(q, task) == Append(q, task)

\* a drain that takes the newest task first
DrainPickLast(q) == Len(q)
\* handleWakeUp: the index in m_taskQueue of the task it runs next
DrainPick(q) == 1

\* the bytes that the k-th send() of thread th passes: two bytes, each
\* naming the call
Payload(d) == <<16 * d[1] + d[2], 16 * d[1] + d[2]>>
\* thread th makes one more send() call
MaySend(th) == Len(pushLog) + ncalls[LoopThread] < MaxSends
\* the send() calls that can be made
SendCalls == {<<th, k>> : th \in NetThreads, k \in 1..MaxSends}

\* the state n after thread th has changed the state of the connection
By(n, th) == [n EXCEPT !.mutators = @ \cup {th}]

\* send(data, size) called by thread th: in the loop's thread _sendInLoop is
\* called directly, in any other thread it is given to pushToQueue, which
\* appends it to the queue under m_taskQueueMutex and then calls wakeUp()
Send(th) ==
    /\ th \in DOMAIN npc
    /\ npc[th] = (IF th = LoopThread THEN "poll" ELSE "idle")
    /\ MaySend(th)
    /\ LET d == <<th, ncalls[th] + 1>>
           called == [net EXCEPT !.ncalls[th] = @ + 1]
       IN  net' = IF IsInLoopThread(th)
                  THEN [called EXCEPT !.npc[th] = "send1",
                                      !.sdata[th] = d,
                                      !.nret[th] = npc[th]]
                  ELSE [called EXCEPT !.loopQueue = Enqueue(@, d),
                                      !.pushLog = Append(@, d),
                                      !.npc[th] = "wake"]
    /\ UNCHANGED poolState

\* wakeUp(): a write to the eventfd adds to its counter
WakeUp(th) ==
    /\ th \in DOMAIN npc
    /\ npc[th] = "wake"
    /\ net' = [net EXCEPT !.wakeUpCnt = @ + 1, !.npc[th] = "idle"]
    /\ UNCHANGED poolState

\* _sendInLoop run by thread th, first half: appendWithSep puts the header in
\* m_outputBuf
SendInLoop1(th) ==
    /\ th \in DOMAIN npc
    /\ npc[th] = "send1"
    /\ net' = By([net EXCEPT
                    !.m_outputBuf = append(@, Header(Len(Payload(sdata[th])))),
                    !.npc[th] = "send2"], th)
    /\ UNCHANGED poolState

\* _sendInLoop, second half: appendWithSep puts the data in m_outputBuf, and
\* the channel is registered for write-readiness
SendInLoop2(th) ==
    /\ th \in DOMAIN npc
    /\ npc[th] = "send2"
    /\ net' = By([net EXCEPT !.m_outputBuf = append(@, Payload(sdata[th])),
                             !.writeInterest = TRUE,
                             !.npc[th] = nret[th],
                             !.sdata[th] = <<>>], th)
    /\ UNCHANGED poolState

(***************************************************************************)
(* EventLoop::run: the thread of the loop                                  *)
(***************************************************************************)
\* the events the multiplexer reports for the connection; a shutdown of the
\* peer makes the socket readable and is reported as a hang-up or not (rd)
ConnMask(rd) ==
    (IF sockIn # <<>> \/ peerHup THEN {"IN"} ELSE {})
    \cup (IF peerHup /\ rd THEN {"RDHUP"} ELSE {})
    \cup (IF writeInterest THEN {"OUT"} ELSE {})
    \cup (IF sockErr THEN {"ERR"} ELSE {})

\* the channels that are ready, each with its events
ReadyEvents(rd) ==
    (IF wakeUpCnt > 0 THEN {[ch |-> "wake", ev |-> {"IN"}]} ELSE {})
    \cup (IF timerDue THEN {[ch |-> "timer", ev |-> {"IN"}]} ELSE {})
    \cup (IF inEpoll /\ ConnMask(rd) # {}
          THEN {[ch |-> "conn", ev |-> ConnMask(rd)]} ELSE {})

\* a handleEvent that tests write readiness first
HandleEventWriteFirst(ev) ==
    IF "OUT" \in ev THEN "write"
    ELSE IF "RDHUP" \in ev THEN "close"
    ELSE IF "IN" \in ev THEN "read"
    ELSE "error"

\* Channel::handleEvent: the one callback that the events ev resolve to
HandleEvent(ev) ==
    IF "RDHUP" \in ev THEN "close"
    ELSE IF "IN" \in ev THEN "read"
    ELSE IF "OUT" \in ev THEN "write"
    ELSE "error"

\* the loop is about to dispatch an event of channel ch that resolves to cb
Dispatching(ch, cb) ==
    /\ npc[LoopThread] = "dispatch"
    /\ batch # <<>>
    /\ Head(batch).ch = ch
    /\ ch = "conn" => HandleEvent(Head(batch).ev) = cb

\* the state n after the event at the head of the batch has been handled
Handled(n) ==
    [n EXCEPT !.batch = Tail(@),
              !.lastEv = IF Head(batch).ch = "conn" THEN Head(batch).ev ELSE @,
              !.lastCb = IF Head(batch).ch = "conn"
                         THEN HandleEvent(Head(batch).ev) ELSE @]

\* the state n after the connection has been closed: marked disconnected,
\* its channel unregistered, the user's close (c = 1) or error (e = 1)
\* callback invoked, and the connection removed from the registries of the
\* loop and of the server
Closing(n, c, e) ==
    [n EXCEPT !.m_disconnected = TRUE,
              !.inEpoll = FALSE,
              !.closeCalls = @ + c,
              !.errorCalls = @ + e,
              !.m_conns = @ \ {ConnFd},
              !.srvConns = @ \ {ConnFd}]

\* run(): m_epChnl->loop() returns the ready channels in the order of the
\* multiplexer
L_Poll ==
    /\ npc[LoopThread] = "poll"
    /\ \E rd \in BOOLEAN :
         /\ ReadyEvents(rd) # {}
         /\ \E order \in Perms(ReadyEvents(rd)) :
              net' = [net EXCEPT !.batch = order,
                                 !.npc[LoopThread] = "dispatch"]
    /\ UNCHANGED poolState

\* run(): every channel returned by the poll has been dispatched and m_stop
\* is not set: the loop polls again
L_BatchDone ==
    /\ npc[LoopThread] = "dispatch"
    /\ batch = <<>>
    /\ ~loopStop
    /\ net' = [net EXCEPT !.npc[LoopThread] = "poll"]
    /\ UNCHANGED poolState

\* run(): every channel returned by the poll has been dispatched and m_stop
\* is set: the thread leaves the loop
L_Exit ==
    /\ npc[LoopThread] = "dispatch"
    /\ batch = <<>>
    /\ loopStop
    /\ net' = [net EXCEPT !.npc[LoopThread] = "stopped"]
    /\ UNCHANGED poolState

\* handleWakeUp(): reads the eventfd, which resets its counter, then runs
\* the tasks of the queue
L_HandleWakeUp ==
    /\ Dispatching("wake", "read")
    /\ net' = [Handled(net) EXCEPT !.wakeUpCnt = 0,
                                   !.npc[LoopThread] = "drain"]
    /\ UNCHANGED poolState

\* handleWakeUp(): takes one task out of the queue and runs it; the task is
\* a bound _sendInLoop
L_Drain ==
    /\ npc[LoopThread] = "drain"
    /\ loopQueue # <<>>
    /\ LET i == DrainPick(loopQueue)
       IN  net' = [net EXCEPT
                     !.sdata[LoopThread] = loopQueue[i],
                     !.execLog = Append(@, loopQueue[i]),
                     !.loopQueue = SubSeq(@, 1, i - 1) \o SubSeq(@, i + 1, Len(@)),
                     !.nret[LoopThread] = "drain",
                     !.npc[LoopThread] = "send1"]
    /\ UNCHANGED poolState

\* handleWakeUp(): the queue is empty
L_DrainDone ==
    /\ npc[LoopThread] = "drain"
    /\ loopQueue = <<>>
    /\ net' = [net EXCEPT !.npc[LoopThread] = "dispatch"]
    /\ UNCHANGED poolState

\* Connection::onMessage(): reads the bytes that have arrived, extracts the
\* complete messages and gives each to the on-message callback; a read of
\* zero bytes (the peer has shut down) closes the connection.  An event of a
\* connection that the loop has closed since the poll reads nothing.
L_OnMessage ==
    /\ Dispatching("conn", "read")
    /\ LET r == ExtractAll(append(m_inputBuf, sockIn))
           read == By([Handled(net) EXCEPT
                         !.sockIn = <<>>,
                         !.m_inputBuf = r.buf,
                         !.delivered = @ \o r.msgs,
                         !.m_lastATime = IF r.msgs # <<>> THEN now ELSE @],
                      LoopThread)
       IN  net' = IF ~inEpoll THEN Handled(net)
                  ELSE IF peerHup THEN Closing(read, 1, 0)
                  ELSE read
    /\ UNCHANGED poolState

\* Connection::writeCb(): writes bytes of m_outputBuf to the socket, as many
\* as the socket takes; when the buffer is empty, write-interest is disabled
\* and the send-complete callback is invoked
L_WriteCb ==
    /\ Dispatching("conn", "write")
    /\ \E n \in 0..Min(Len(m_outputBuf), MaxWrite) :
         /\ n = 0 => m_outputBuf = <<>>
         /\ net' = By([Handled(net) EXCEPT
                         !.sockOut = @ \o SubSeq(m_outputBuf, 1, n),
                         !.m_outputBuf = SubSeq(@, n + 1, Len(@)),
                         !.writeInterest = (n < Len(m_outputBuf))],
                      LoopThread)
    /\ UNCHANGED poolState

\* Connection::closeCb()
L_CloseCb ==
    /\ Dispatching("conn", "close")
    /\ net' = By(Closing(Handled(net), 1, 0), LoopThread)
    /\ UNCHANGED poolState

\* Connection::errorCb()
L_ErrorCb ==
    /\ Dispatching("conn", "error")
    /\ net' = By(Closing(Handled(net), 0, 1), LoopThread)
    /\ UNCHANGED poolState

\* EventLoop::handleTimer(): reads the timer, then sweeps m_conns; a
\* connection that has been idle for longer than the timeout is closed, its
\* close callback invoked, and it is removed from m_conns and, by
\* TcpServer::removeConn, from the registry of the server
L_HandleTimer ==
    /\ Dispatching("timer", "read")
    /\ LET read == [Handled(net) EXCEPT !.timerDue = FALSE]
       IN  net' = IF ConnFd \in m_conns /\ timeout(now, IdleLimit)
                  THEN By(Closing(read, 1, 0), LoopThread)
                  ELSE read
    /\ UNCHANGED poolState

(***************************************************************************)
(* EventLoop::stop, called by a thread other than the loop's               *)
(***************************************************************************)
\* a stop() that returns without waiting for the loop
StopReturnsAtOnce == TRUE
\* stop() returns once the thread of the loop has left the loop
StopWaits == npc[LoopThread] = "stopped"

\* stop(): sets m_stop
LS_Stop ==
    /\ lspc = "idle"
    /\ net' = [net EXCEPT !.loopStop = TRUE, !.lspc = "wake"]
    /\ UNCHANGED poolState

\* stop(): writes to the wake-up descriptor
LS_WakeUp ==
    /\ lspc = "wake"
    /\ net' = [net EXCEPT !.wakeUpCnt = @ + 1, !.lspc = "wait"]
    /\ UNCHANGED poolState

\* stop(): returns
LS_Return ==
    /\ lspc = "wait"
    /\ StopWaits
    /\ net' = [net EXCEPT !.lspc = "returned"]
    /\ UNCHANGED poolState

(***************************************************************************)
(* The connect() shim loaded by LD_PRELOAD                                 *)
(***************************************************************************)
\* destination addresses and ports; DomainName is the one name a blacklist can
\* hold, Answers are the sets of addresses the resolver may return for it
IPs == {"a", "b"}
Ports == {1, 2}
DomainName == "dom"
Answers == {{}, {"a"}}
\* the lines <BlacklistEntry>target:port</BlacklistEntry> a file can hold;
\* port 0 stands for "*"
FileEntries == [target : IPs \cup {"*", DomainName}, port : {0, 1}]
\* paths of executables
ProcPath == "/usr/bin/x"
Whitelists == {{}, {"/bin/x"}}
\* is_proc_whitelisted: "/usr/bin/" at the front of a path is replaced by "/bin/"
Simplified(path) == IF path = "/usr/bin/x" THEN "/bin/x" ELSE path
is_proc_whitelisted(proc, whitelist) ==
    \E white_proc \in whitelist :
        proc = white_proc \/ Simplified(proc) = Simplified(white_proc)

\* an is_in_intercept_time that takes every window for one that spans midnight
is_in_intercept_timeAnyOrder(current, t) ==
    current >= t.start_time \/ current <= t.end_time

\* is_in_intercept_time, with current = get_current_hhmm()
is_in_intercept_time(current, t) ==
    IF t.start_time > t.end_time
    THEN current >= t.start_time \/ current <= t.end_time
    ELSE current >= t.start_time /\ current <= t.end_time

\* an is_blocked that compares the address and not the port
EntryBlocksAnyPort(entry, ip, port, dns) ==
    \/ entry.ip = "*" \/ entry.ip = ip
    \/ entry.is_domain /\ entry.url # "" /\ ip \in dns

\* is_blocked, the body of its loop: the entry matches the port and either
\* its address or, for a domain, an address the name resolves to now (dns)
EntryBlocks(entry, ip, port, dns) ==
    LET port_match == entry.port = 0 \/ entry.port = port IN
    \/ port_match /\ (entry.ip = "*" \/ entry.ip = ip)
    \/ entry.is_domain /\ entry.url # "" /\ port_match /\ ip \in dns

\* is_blocked
is_blocked(blacklist, t, current, ip, port, dns) ==
    /\ is_in_intercept_time(current, t)
    /\ \E i \in 1..Len(blacklist) : EntryBlocks(blacklist[i], ip, port, dns)

\* load_config, one <BlacklistEntry> line: "*" is stored as the address
\* 0.0.0.0, an address as itself, a name as the first address it resolves to
\* and skipped when it does not resolve
LoadEntry(e, dns) ==
    IF e.target = "*"
    THEN <<[ip |-> "0.0.0.0", port |-> e.port, url |-> "*", is_domain |-> FALSE]>>
    ELSE IF e.target \in IPs
    THEN <<[ip |-> e.target, port |-> e.port, url |-> e.target, is_domain |-> FALSE]>>
    ELSE IF dns = {} THEN <<>>
    ELSE <<[ip |-> CHOOSE a \in dns : TRUE, port |-> e.port, url |-> e.target,
            is_domain |-> TRUE]>>

RECURSIVE LoadEntries(_, _)
LoadEntries(es, dns) ==
    IF es = <<>> THEN <<>>
    ELSE LoadEntry(Head(es), dns) \o LoadEntries(Tail(es), dns)

\* load_config: the first caller reads the file, if there is one
load_config(sh, dns) ==
    IF sh.g_bConfigLoaded THEN sh
    ELSE IF ~sh.file.exists THEN [sh EXCEPT !.g_bConfigLoaded = TRUE]
    ELSE [sh EXCEPT !.g_bConfigLoaded = TRUE,
                    !.g_Blacklist = LoadEntries(sh.file.entries, dns),
                    !.g_WhitelistProcs = sh.file.whitelist,
                    !.g_InterceptTime = sh.file.time]

\* connect() and connectat() of the shim, called by the process with a
\* destination of family fam; found is whether dlsym(RTLD_NEXT) finds the
\* original, oret and oerr what the original returns and sets if it is called
Hook(c) ==
    /\ shim.pc = "idle"
    /\ LET sh == load_config(shim, c.dns)
           forward == [sh EXCEPT !.pc = "returned", !.call = c,
                                 !.ret = c.oret,
                                 !.errno = IF c.oret = -1 THEN c.oerr ELSE "none",
                                 !.origCalls = 1]
           fail(e) == [sh EXCEPT !.pc = "returned", !.call = c,
                                 !.ret = -1, !.errno = e, !.origCalls = 0]
       IN  net' = [net EXCEPT !.shim =
               IF ~c.found THEN fail("EINVAL")
               ELSE IF is_proc_whitelisted(sh.proc, sh.g_WhitelistProcs) THEN forward
               ELSE IF c.fam = "AF_UNIX" THEN forward
               ELSE IF is_blocked(sh.g_Blacklist, sh.g_InterceptTime, c.current,
                                  c.ip, c.port, c.dns)
               THEN fail("ECONNREFUSED")
               ELSE forward]
    /\ UNCHANGED poolState

\* the calls a process can make: libc defines connect, and connectat where
\* the platform has one
Calls(fn) ==
    [fn : {fn}, fam : {"AF_INET", "AF_UNIX"}, ip : IPs, port : Ports,
     current : 0..MaxTime, dns : Answers,
     found : IF fn = "connect" THEN {TRUE} ELSE BOOLEAN,
     oret : {0, -1}, oerr : {"ETIMEDOUT"}]

connect == \E c \in Calls("connect") : Hook(c)
connectat == \E c \in Calls("connectat") : Hook(c)

\* the caller has looked at the result and is about to call again
Caller_Return ==
    /\ shim.pc = "returned"
    /\ net' = [net EXCEPT !.shim = [shim EXCEPT !.pc = "idle",
                                                !.call = [fn |-> "none"],
                                                !.ret = 0,
                                                !.errno = "none",
                                                !.origCalls = 0]]
    /\ UNCHANGED poolState

(***************************************************************************)
(* The mutexes of a dynamic-mode pool: every acquisition is a step         *)
(***************************************************************************)
\* the mutexes a thread holds
Held(t) == {m \in Mutexes : lk.owner[m] = t}

\* one step of thread t: it moves to pc `to`, having taken the mutexes
\* `takes`, which must be free, and dropped the mutexes `drops`; `f` is the
\* pool with its other fields already changed
LockStep(f, t, to, takes, drops) ==
    /\ \A m \in takes : lk.owner[m] = Free
    /\ net' = [net EXCEPT !.lk =
                 [f EXCEPT !.pc[t] = to,
                           !.owner = [m \in Mutexes |->
                                        IF m \in takes THEN t
                                        ELSE IF m \in drops THEN Free
                                        ELSE lk.owner[m]]]]
    /\ UNCHANGED poolState

\* a stop() that goes on to the workers without joining the manager
StopSkipsManager == "lockExit"

\* stop(), after the exchange: notify the manager and join it
StopAfterExchange == "joinMgr"

\* manager(): `while (!m_stop)`, then the lock on managerMutex; after the
\* loop, the lock on workerExitId_dequeMutex
MG_Top ==
    /\ lk.pc[ManagerT] = "top"
    /\ IF lk.m_stop
       THEN LockStep(lk, ManagerT, "clear", {"workerExitId_dequeMutex"}, {})
       ELSE LockStep(lk, ManagerT, "wait", {"managerMutex"}, {})

\* manager(): wait_for returns with managerMutex held; `if (m_stop) return;`,
\* else the clean-up step locks m_workersMutex
MG_Wake ==
    /\ lk.pc[ManagerT] = "wait"
    /\ IF lk.m_stop
       THEN LockStep(lk, ManagerT, "done", {}, {"managerMutex"})
       ELSE LockStep(lk, ManagerT, "lockExit", {"m_workersMutex"}, {})

\* manager(), clean-up: the lock on workerExitId_dequeMutex
MG_LockExit ==
    /\ lk.pc[ManagerT] = "lockExit"
    /\ LockStep(lk, ManagerT, "swap", {"workerExitId_dequeMutex"}, {})

\* manager(), clean-up: swap the deque out and unlock it
MG_Swap ==
    /\ lk.pc[ManagerT] = "swap"
    /\ LockStep([lk EXCEPT !.exitIds = lk.workerExitId_deque,
                           !.workerExitId_deque = {}],
                ManagerT, "join", {}, {"workerExitId_dequeMutex"})

\* manager(), clean-up: join and erase every thread of the local deque, then
\* unlock m_workersMutex
MG_Join ==
    /\ lk.pc[ManagerT] = "join"
    /\ \A w \in lk.exitIds \cap lk.m_workers : lk.pc[w] = "done"
    /\ LockStep([lk EXCEPT !.m_workers = @ \ lk.exitIds,
                           !.exitIds = {},
                           !.pc = [t \in LockThreads |->
                                     IF t \in lk.exitIds \cap lk.m_workers
                                     THEN "none" ELSE lk.pc[t]]],
                ManagerT, "lockQueue", {}, {"m_workersMutex"})

\* manager(), scale step: the lock on m_taskQueueMutex
MG_LockQueue ==
    /\ lk.pc[ManagerT] = "lockQueue"
    /\ LockStep(lk, ManagerT, "lockWorkers", {"m_taskQueueMutex"}, {})

\* manager(), scale step: the lock on m_workersMutex
MG_LockWorkers ==
    /\ lk.pc[ManagerT] = "lockWorkers"
    /\ LockStep(lk, ManagerT, "scale", {"m_workersMutex"}, {})

\* manager(), scale step: it creates a worker, asks one to exit, or does
\* neither; the three mutexes are unlocked at the end of the pass
MG_Scale ==
    /\ lk.pc[ManagerT] = "scale"
    /\ \E f \in {lk} \cup {[lk EXCEPT !.workerExitNum = 1]}
                \cup {[lk EXCEPT !.m_workers = @ \cup {w}, !.pc[w] = "top"] :
                        w \in {v \in LockWorkerThreads : lk.pc[v] = "none"}} :
         LockStep(f, ManagerT, "top", {},
                  {"m_workersMutex", "m_taskQueueMutex", "managerMutex"})

\* manager(), after the loop: clear the deque and end
MG_Clear ==
    /\ lk.pc[ManagerT] = "clear"
    /\ LockStep([lk EXCEPT !.workerExitId_deque = {}], ManagerT, "done", {},
                {"workerExitId_dequeMutex"})

\* worker(): `while (!m_stop)`, then the lock on m_taskQueueMutex
WK_Top(w) ==
    /\ lk.pc[w] = "top"
    /\ IF lk.m_stop
       THEN LockStep(lk, w, "exit", {}, {})
       ELSE LockStep(lk, w, "held", {"m_taskQueueMutex"}, {})

\* worker(), with m_taskQueueMutex held: leave on m_stop, consume an exit
\* unit, take a task or find the queue empty (the mutex is unlocked), or
\* find the wait predicate false and wait on the condition variable
WK_Held(w) ==
    /\ lk.pc[w] = "held"
    /\ IF lk.m_stop
       THEN LockStep(lk, w, "exit", {}, {"m_taskQueueMutex"})
       ELSE IF lk.workerExitNum > 0
       THEN LockStep([lk EXCEPT !.workerExitNum = @ - 1], w, "exit", {},
                     {"m_taskQueueMutex"})
       ELSE \E to \in {"top", "parked"} :
                LockStep(lk, w, to, {}, {"m_taskQueueMutex"})

\* worker(): the wait ends and locks m_taskQueueMutex again
WK_Wake(w) ==
    /\ lk.pc[w] = "parked"
    /\ LockStep(lk, w, "held", {"m_taskQueueMutex"}, {})

\* worker(), after the loop: `if (!m_stop.load())`
WK_Exit(w) ==
    /\ lk.pc[w] = "exit"
    /\ LockStep(lk, w, IF lk.m_stop THEN "done" ELSE "lockExit", {}, {})

\* worker(), after the loop: the lock on workerExitId_dequeMutex
WK_LockExit(w) ==
    /\ lk.pc[w] = "lockExit"
    /\ LockStep(lk, w, "report", {"workerExitId_dequeMutex"}, {})

\* worker(), after the loop: the id goes into the deque and the thread ends
WK_Report(w) ==
    /\ lk.pc[w] = "report"
    /\ LockStep([lk EXCEPT !.workerExitId_deque = @ \cup {w}], w, "done", {},
                {"workerExitId_dequeMutex"})

\* addTask() and the policy setters: the lock on m_taskQueueMutex; a producer
\* that waits on the condition variable has unlocked it
PR_Lock ==
    /\ lk.pc[ProducerT(1)] = "idle"
    /\ LockStep(lk, ProducerT(1), "held", {"m_taskQueueMutex"}, {})
PR_Unlock ==
    /\ lk.pc[ProducerT(1)] = "held"
    /\ LockStep(lk, ProducerT(1), "idle", {}, {"m_taskQueueMutex"})

\* getTaskNum() locks m_taskQueueMutex, getWorkerNum() m_workersMutex
GT_Lock ==
    /\ lk.pc[GetterT] = "idle"
    /\ \E m \in {"m_taskQueueMutex", "m_workersMutex"} :
         LockStep(lk, GetterT, "held", {m}, {})
GT_Unlock ==
    /\ lk.pc[GetterT] = "held"
    /\ LockStep(lk, GetterT, "idle", {}, Held(GetterT))

\* stop(): the exchange on m_stop
SP_Exchange ==
    /\ lk.pc[StopT] = "idle"
    /\ LockStep([lk EXCEPT !.m_stop = TRUE], StopT, StopAfterExchange, {}, {})

\* stop(): managerThread.join()
SP_JoinManager ==
    /\ lk.pc[StopT] = "joinMgr"
    /\ lk.pc[ManagerT] = "done"
    /\ LockStep(lk, StopT, "lockExit", {}, {})

\* stop(): the lock on workerExitId_dequeMutex
SP_LockExit ==
    /\ lk.pc[StopT] = "lockExit"
    /\ LockStep(lk, StopT, "clear", {"workerExitId_dequeMutex"}, {})

\* stop(): clear the deque and unlock it
SP_Clear ==
    /\ lk.pc[StopT] = "clear"
    /\ LockStep([lk EXCEPT !.workerExitId_deque = {}], StopT, "lockWorkers", {},
                {"workerExitId_dequeMutex"})

\* stop(): after the notify_all calls and the loop on m_activeWorkers, the
\* lock on m_workersMutex
SP_LockWorkers ==
    /\ lk.pc[StopT] = "lockWorkers"
    /\ LockStep(lk, StopT, "join", {"m_workersMutex"}, {})

\* stop(): join every thread of m_workers, clear it and return
SP_JoinWorkers ==
    /\ lk.pc[StopT] = "join"
    /\ \A w \in lk.m_workers : lk.pc[w] = "done"
    /\ LockStep([lk EXCEPT !.m_workers = {}], StopT, "done", {}, {"m_workersMutex"})

(***************************************************************************)
(* The first connect() calls of a process, made by several threads         *)
(***************************************************************************)
\* the lines a configuration file can hold
ConfigLines ==
    {[tag |-> "BlacklistEntry", target |-> "a", port |-> 0],
     [tag |-> "WhitelistProc", path |-> "/bin/x"],
     [tag |-> "EndInterceptTime", time |-> 0]}

\* load_config, one pass of `while (ifile.readline(buf))`: the line sets a
\* bound of the window, or adds a process to the whitelist or an entry to the
\* blacklist
ReadLine(f, line) ==
    CASE line.tag = "StartInterceptTime" ->
           [f EXCEPT !.g_InterceptTime.start_time = line.time]
      [] line.tag = "EndInterceptTime" ->
           [f EXCEPT !.g_InterceptTime.end_time = line.time]
      [] line.tag = "WhitelistProc" ->
           [f EXCEPT !.g_WhitelistProcs = @ \cup {line.path}]
      [] line.tag = "BlacklistEntry" ->
           [f EXCEPT !.g_Blacklist =
                @ \o LoadEntry([target |-> line.target, port |-> line.port], {})]

\* the globals once every line from the k-th on has been read
RECURSIVE ReadLines(_, _)
ReadLines(f, k) ==
    IF k > Len(f.lines) THEN f ELSE ReadLines(ReadLine(f, f.lines[k]), k + 1)

\* connect() from the whitelist test on, for a destination of an IP family,
\* against the globals as they are in f
Decision(f, c) ==
    IF is_proc_whitelisted(ProcPath, f.g_WhitelistProcs) THEN "forward"
    ELSE IF is_blocked(f.g_Blacklist, f.g_InterceptTime, c.current, c.ip, c.port, {})
    THEN "refuse"
    ELSE "forward"

\* a thread calls connect(), which calls load_config(): the
\* compare_exchange_strong on g_bConfigLoaded lets the first caller into the
\* body and makes every other caller return at once
FC_Connect(th) ==
    /\ fc.tpc[th] = "idle"
    /\ \E c \in [ip : IPs, port : {1}, current : 0..MaxTime] :
         net' = [net EXCEPT !.fc =
             IF fc.g_bConfigLoaded
             THEN [fc EXCEPT !.tpc[th] = "loaded", !.call[th] = c]
             ELSE [fc EXCEPT !.tpc[th] = "load", !.call[th] = c,
                             !.g_bConfigLoaded = TRUE, !.bodies = @ + 1]]
    /\ UNCHANGED poolState

\* the body of load_config reads the next line of the file.  The globals are
\* plain objects: another thread that reads them meanwhile sees them as they
\* were before this line or as they are after it
FC_ReadLine(th) ==
    /\ fc.tpc[th] = "load"
    /\ fc.at < Len(fc.lines)
    /\ net' = [net EXCEPT !.fc = [ReadLine(fc, fc.lines[fc.at + 1]) EXCEPT !.at = @ + 1]]
    /\ UNCHANGED poolState

\* the body of load_config is at the end of the file and returns
FC_LoadDone(th) ==
    /\ fc.tpc[th] = "load"
    /\ fc.at = Len(fc.lines)
    /\ net' = [net EXCEPT !.fc = [fc EXCEPT !.tpc[th] = "loaded"]]
    /\ UNCHANGED poolState

\* the rest of connect(): whitelist, time window and blacklist as the globals
\* hold them now
FC_Decide(th) ==
    /\ fc.tpc[th] = "loaded"
    /\ net' = [net EXCEPT !.fc = [fc EXCEPT !.tpc[th] = "returned",
                                             !.res[th] = Decision(fc, fc.call[th])]]
    /\ UNCHANGED poolState

(***************************************************************************)
(* Buffer::pickMessage called on a Buffer of its own                       *)
(***************************************************************************)
B_PickMessage ==
    /\ pk.calls < MaxPicks
    /\ LET r == pickMessageOf(pk.sep, pk.buf)
       IN  net' = [net EXCEPT !.pk = [pk EXCEPT !.before = pk.buf,
                                                !.buf = r.buf,
                                                !.res = [ok |-> r.ok, s |-> r.s],
                                                !.calls = @ + 1]]
    /\ UNCHANGED poolState

(***************************************************************************)
(* TcpServer: start(), stop(), the destructor, and the path of a client    *)
(* from accept to the registries                                           *)
(***************************************************************************)
\* a client's socket that nothing owns any more: neither a registry nor a
\* queued newConn task
Orphan(c) ==
    /\ c \in srv.open
    /\ c \notin srv.m_conns
    /\ c \notin srv.loopConns
    /\ c \notin Range(srv.subQueue)
\* a socket destroyed while its channel is still tracked
ChannelGoneAlways(c) == TRUE

\* ~Connection(): m_cliChnl is destroyed before m_cliFd
ChannelGone(c) == \A l \in {"main", "sub"} : <<l, c>> \notin srv.reg

\* a task queue whose destruction releases nothing
KeepQueue(q) == q

\* ~EventLoop(): the tasks left in m_taskQueue are destroyed
DestroyQueue(q) == <<>>

\* one step of the facade
SrvStep(new) ==
    /\ net' = [net EXCEPT !.srv = new]
    /\ UNCHANGED poolState

\* start(): the main loop runs the Acceptor, the sub loop runs on its thread
Srv_Start ==
    /\ srv.ph = "new"
    /\ SrvStep([srv EXCEPT !.ph = "started", !.sub = "run", !.mainRun = TRUE])

\* a client connects to the listening socket
Cli_Connect ==
    /\ "listen" \in srv.own
    /\ srv.nextFd + srv.backlog <= MaxClients
    /\ SrvStep([srv EXCEPT !.backlog = @ + 1])

\* Acceptor::newConn on the main loop, then TcpServer::newConn: accepts one
\* connection and marshals its construction to the sub loop
Acc_NewConn ==
    /\ srv.mainRun
    /\ <<"main", "listen">> \in srv.ownReg
    /\ srv.backlog > 0
    /\ SrvStep([srv EXCEPT !.backlog = @ - 1,
                           !.nextFd = @ + 1,
                           !.open = @ \cup {srv.nextFd},
                           !.subQueue = Append(@, srv.nextFd)])

\* the marshalled task on the sub loop: constructs the Connection, registers
\* its channel and enters it in both registries
Sub_NewConn ==
    /\ srv.sub \in {"run", "stopping"}
    /\ srv.subQueue # <<>>
    /\ LET c == Head(srv.subQueue) IN
       SrvStep([srv EXCEPT !.subQueue = Tail(@),
                           !.reg = @ \cup {<<"sub", c>>},
                           !.loopConns = @ \cup {c},
                           !.m_conns = @ \cup {c}])

\* the sub loop closes a connection it was asked to close: the channel is
\* unregistered and the connection leaves both registries
Sub_CloseConn(c) ==
    /\ srv.sub \in {"run", "stopping"}
    /\ c \in srv.closeReq
    /\ c \in srv.loopConns
    /\ SrvStep([srv EXCEPT !.closeReq = @ \ {c},
                           !.reg = @ \ {<<"sub", c>>},
                           !.loopConns = @ \ {c},
                           !.m_conns = @ \ {c}])

\* run() of the sub loop sees m_stop and returns
Sub_Exit ==
    /\ srv.sub = "stopping"
    /\ SrvStep([srv EXCEPT !.sub = "exited"])

\* ~Connection(), m_cliChnl: the channel leaves its multiplexer
Conn_DtorChannel(c) ==
    /\ Orphan(c)
    /\ ~ChannelGone(c)
    /\ SrvStep([srv EXCEPT !.reg = {r \in @ : r[2] # c}])

\* ~Connection(), m_cliFd, or the socket of a task never run: ~SocketFd()
\* closes the descriptor
Conn_DtorSocket(c) ==
    /\ Orphan(c)
    /\ ChannelGone(c)
    /\ SrvStep([srv EXCEPT !.open = @ \ {c}, !.closes[c] = @ + 1])

\* stop(), first step: the Acceptor's channel leaves the main multiplexer
ST_StopAccept ==
    /\ srv.ph = "started"
    /\ SrvStep([srv EXCEPT !.ph = "noAccept",
                           !.ownReg = @ \ {<<"main", "listen">>}])

\* stop(), second step: every connection of the registry is asked to close
ST_RequestClose ==
    /\ srv.ph = "noAccept"
    /\ SrvStep([srv EXCEPT !.ph = "closeAsked", !.closeReq = srv.m_conns])

\* stop(), third step: the sub loop is told to stop and woken
ST_StopSubs ==
    /\ srv.ph = "closeAsked"
    /\ SrvStep([srv EXCEPT !.ph = "subsStopping", !.sub = "stopping"])

\* stop(), fourth step: the thread of the sub loop has left run() and is
\* joined
ST_Join ==
    /\ srv.ph = "subsStopping"
    /\ srv.sub = "exited"
    /\ SrvStep([srv EXCEPT !.ph = "joined", !.joined = TRUE])

\* stop(), fifth step: the main loop stops
ST_StopMain ==
    /\ srv.ph = "joined"
    /\ SrvStep([srv EXCEPT !.ph = "stopped", !.mainRun = FALSE])

\* ~TcpServer(), m_conns
D_Conns ==
    /\ srv.ph = "stopped"
    /\ SrvStep([srv EXCEPT !.ph = "dConns", !.m_conns = {}])

\* ~TcpServer(), m_acceptor: its channel, then its socket
D_Acceptor ==
    /\ srv.ph = "dConns"
    /\ SrvStep([srv EXCEPT !.ph = "dAcceptor",
                           !.ownReg = @ \ {<<"main", "listen">>},
                           !.own = @ \ {"listen"},
                           !.ownCloses["listen"] = @ + 1])

\* ~EventLoop() of the sub loop, m_conns and m_taskQueue
D_SubConns ==
    /\ srv.ph = "dAcceptor"
    /\ SrvStep([srv EXCEPT !.ph = "dSubConns",
                           !.loopConns = {},
                           !.closeReq = {},
                           !.subQueue = DestroyQueue(@)])

\* ~EventLoop(), the loop's own channels, descriptors and multiplexer, once
\* the members destroyed before them are gone
D_Loop(l, fds, from, to) ==
    /\ srv.ph = from
    /\ \A c \in srv.open : ~Orphan(c)
    /\ SrvStep([srv EXCEPT !.ph = to,
                           !.ownReg = {r \in @ : r[1] # l},
                           !.reg = {r \in @ : r[1] # l},
                           !.own = @ \ fds,
                           !.ownCloses = [d \in OwnFds |->
                                            IF d \in fds THEN @[d] + 1 ELSE @[d]]])
D_SubLoop == D_Loop("sub", SubFds, "dSubConns", "dSubLoop")
D_MainLoop == D_Loop("main", MainFds, "dSubLoop", "destroyed")

(***************************************************************************)
(* The peer and the clock                                                  *)
(***************************************************************************)
\* k more bytes of the peer's stream arrive
E_Arrive ==
    /\ ~peerHup
    /\ \E k \in 1..Len(cliPending) :
         net' = [net EXCEPT !.sockIn = @ \o SubSeq(cliPending, 1, k),
                            !.cliPending = SubSeq(@, k + 1, Len(@))]
    /\ UNCHANGED poolState

\* the peer shuts its side down
E_PeerClose ==
    /\ ~peerHup
    /\ net' = [net EXCEPT !.peerHup = TRUE]
    /\ UNCHANGED poolState

\* the socket gets an error
E_SockError ==
    /\ ~sockErr
    /\ net' = [net EXCEPT !.sockErr = TRUE]
    /\ UNCHANGED poolState

\* a sweep interval passes: the timer becomes readable
E_Tick ==
    /\ now < MaxNow
    /\ net' = [net EXCEPT !.now = @ + 1, !.timerDue = TRUE]
    /\ UNCHANGED poolState

(***************************************************************************)
(* Specifications of the networking classes                                *)
(***************************************************************************)
\* the thread pool of the server is not part of these specifications
NoPool ==
    /\ isDynamic = FALSE
    /\ minThreads = 0
    /\ maxThreads = 0
    /\ m_maxQueueSize = 0
    /\ m_queueFullPolicy = "kReject"
    /\ mpc = "none"
    /\ cycleLimit = 0
    /\ InitPool(0, {}, 0, {})

\* one established connection on a running loop whose thread is in poll; the
\* peer will send msgs, and the threads ths will call send()
InitConn(msgs, ths) ==
    /\ net = NetState(msgs, Wire(msgs), ths, {ConnFd})
    /\ NoPool

\* the peer sends any messages; nothing else happens to the connection
InitFrame ==
    \E msgs \in SeqsUpTo(SeqsUpTo(PayloadBytes, MaxPayload), MaxMsgs) :
        InitConn(msgs, {LoopThread})
NextFrame ==
    \/ E_Arrive
    \/ L_Poll
    \/ L_OnMessage
    \/ L_BatchDone
SpecFrame == InitFrame /\ [][NextFrame]_vars

\* the loop's thread and NetSenders other threads call send(); the peer
\* stays connected and silent
InitSend == InitConn(<<>>, NetThreads)
NextSend ==
    \/ \E th \in NetThreads : Send(th)
    \/ \E th \in NetThreads : WakeUp(th)
    \/ \E th \in NetThreads : SendInLoop1(th)
    \/ \E th \in NetThreads : SendInLoop2(th)
    \/ L_Poll
    \/ L_BatchDone
    \/ L_HandleWakeUp
    \/ L_Drain
    \/ L_DrainDone
    \/ L_WriteCb
SpecSend == InitSend /\ [][NextSend]_vars

\* the life of a connection: the peer sends, shuts down or fails, and the
\* sweep timer ticks
InitLife ==
    \E msgs \in SeqsUpTo({<<1>>}, 1) : InitConn(msgs, {LoopThread})
NextLife ==
    \/ E_Arrive
    \/ E_PeerClose
    \/ E_SockError
    \/ E_Tick
    \/ L_Poll
    \/ L_BatchDone
    \/ L_OnMessage
    \/ L_CloseCb
    \/ L_ErrorCb
    \/ L_HandleTimer
SpecLife == InitLife /\ [][NextLife]_vars

\* a process with any configuration file, or none
Files ==
    {[exists |-> FALSE]} \cup
    [exists : {TRUE},
     entries : SeqsUpTo(FileEntries, MaxEntries),
     whitelist : Whitelists,
     time : {[start_time |-> 0, end_time |-> MaxTime],
             [start_time |-> 1, end_time |-> 1],
             [start_time |-> MaxTime, end_time |-> 0]}]
InitShim ==
    \E file \in Files :
        /\ net = [NetState(<<>>, <<>>, {}, {}) EXCEPT !.shim = ShimOf(file, ProcPath)]
        /\ NoPool
NextShim ==
    \/ connect
    \/ connectat
    \/ Caller_Return
SpecShim == InitShim /\ [][NextShim]_vars

\* ThreadPool<true> with LockWorkers workers, threads that call addTask, a
\* getter and stop(), every acquisition of a mutex being a step
InitLocks ==
    /\ net = [NetState(<<>>, <<>>, {}, {}) EXCEPT !.lk = LocksOf(LockWorkers)]
    /\ NoPool
NextLocks ==
    \/ MG_Top
    \/ MG_Wake
    \/ MG_LockExit
    \/ MG_Swap
    \/ MG_Join
    \/ MG_LockQueue
    \/ MG_LockWorkers
    \/ MG_Scale
    \/ MG_Clear
    \/ \E w \in LockWorkerThreads : WK_Top(w)
    \/ \E w \in LockWorkerThreads : WK_Held(w)
    \/ \E w \in LockWorkerThreads : WK_Wake(w)
    \/ \E w \in LockWorkerThreads : WK_Exit(w)
    \/ \E w \in LockWorkerThreads : WK_LockExit(w)
    \/ \E w \in LockWorkerThreads : WK_Report(w)
    \/ PR_Lock
    \/ PR_Unlock
    \/ GT_Lock
    \/ GT_Unlock
    \/ SP_Exchange
    \/ SP_JoinManager
    \/ SP_LockExit
    \/ SP_Clear
    \/ SP_LockWorkers
    \/ SP_JoinWorkers
SpecLocks == InitLocks /\ [][NextLocks]_vars

\* a process whose threads make their first connect() calls, with any
\* configuration file
InitFirstCalls ==
    \E lines \in SeqsUpTo(ConfigLines, MaxLines) :
        /\ net = [NetState(<<>>, <<>>, {}, {}) EXCEPT !.fc = FirstCallsOf(lines)]
        /\ NoPool
NextFirstCalls ==
    \/ \E th \in ShimThreads : FC_Connect(th)
    \/ \E th \in ShimThreads : FC_ReadLine(th)
    \/ \E th \in ShimThreads : FC_LoadDone(th)
    \/ \E th \in ShimThreads : FC_Decide(th)
SpecFirstCalls == InitFirstCalls /\ [][NextFirstCalls]_vars

\* the byte values of a Buffer: those of the terminator, of a header that
\* declares 0 or 1 bytes, and of a payload
BufBytes == {0, 1, 10, 13}
\* a Buffer of mode 1 or 2 that holds any bytes
InitPick ==
    \E sep \in {1, 2}, buf \in SeqsUpTo(BufBytes, MaxBuf) :
        /\ net = [NetState(<<>>, <<>>, {}, {}) EXCEPT !.pk = BufferOf(sep, buf)]
        /\ NoPool
SpecPick == InitPick /\ [][B_PickMessage]_vars

\* a connection in any state of its socket and of its output buffer, polled
\* and dispatched by the loop
InitEvent ==
    \E msgs \in SeqsUpTo({<<1>>}, 1), out \in SeqsUpTo(PayloadBytes, 1),
       hup \in BOOLEAN, err \in BOOLEAN :
        /\ net = [NetState(msgs, <<>>, {LoopThread}, {ConnFd}) EXCEPT
                     !.sockIn = Wire(msgs),
                     !.peerHup = hup,
                     !.sockErr = err,
                     !.m_outputBuf = out,
                     !.writeInterest = (out # <<>>)]
        /\ NoPool
NextEvent ==
    \/ L_Poll
    \/ L_BatchDone
    \/ L_OnMessage
    \/ L_WriteCb
    \/ L_CloseCb
    \/ L_ErrorCb
SpecEvent == InitEvent /\ [][NextEvent]_vars

\* a facade that is constructed, started, stopped and destroyed while clients
\* connect
InitServer ==
    /\ net = [NetState(<<>>, <<>>, {}, {}) EXCEPT !.srv = Facade(OwnFds, OwnChannels)]
    /\ NoPool
NextServer ==
    \/ Srv_Start
    \/ Cli_Connect
    \/ Acc_NewConn
    \/ Sub_NewConn
    \/ \E c \in ClientFds : Sub_CloseConn(c)
    \/ Sub_Exit
    \/ \E c \in ClientFds : Conn_DtorChannel(c)
    \/ \E c \in ClientFds : Conn_DtorSocket(c)
    \/ ST_StopAccept
    \/ ST_RequestClose
    \/ ST_StopSubs
    \/ ST_Join
    \/ ST_StopMain
    \/ D_Conns
    \/ D_Acceptor
    \/ D_SubConns
    \/ D_SubLoop
    \/ D_MainLoop
SpecServer == InitServer /\ [][NextServer]_vars

\* a loop that is stopped while its thread and one other thread call send()
InitLoopStop == InitConn(<<>>, {LoopThread, 1})
\* a step of the thread of the loop inside run()
LoopStep ==
    \/ L_Poll
    \/ L_BatchDone
    \/ L_Exit
    \/ L_HandleWakeUp
    \/ L_Drain
    \/ L_DrainDone
    \/ L_WriteCb
    \/ SendInLoop1(LoopThread)
    \/ SendInLoop2(LoopThread)
NextLoopStop ==
    \/ \E th \in NetThreads : Send(th)
    \/ \E th \in NetThreads : WakeUp(th)
    \/ LoopStep
    \/ LS_Stop
    \/ LS_WakeUp
    \/ LS_Return
\* the thread of the loop and the thread inside stop() or inside pushToQueue
\* eventually take the step they can take; when send() and stop() are called
\* is up to the callers
FairLoopStop ==
    /\ WF_vars(LoopStep)
    /\ WF_vars(LS_WakeUp \/ LS_Return)
    /\ \A th \in NetThreads : WF_vars(WakeUp(th))
SpecLoopStop == InitLoopStop /\ [][NextLoopStop]_vars /\ FairLoopStop

(***************************************************************************)
(* Claims on the networking classes                                        *)
(***************************************************************************)
\* C16: of the messages that the peer sends back to back under framing
\* mode 1, the connection delivers a prefix, in the order sent and each
\* payload whole, however the bytes are split over the reads; once every
\* byte has been read, it has delivered exactly the messages sent and its
\* buffer is empty.
C16_FramingRoundTrip ==
    /\ IsPrefix(delivered, cliMsgs)
    /\ (cliPending = <<>> /\ sockIn = <<>>) =>
           (delivered = cliMsgs /\ m_inputBuf = <<>>)

\* MaxMsgs messages were sent; the first has been delivered, and a read has
\* ended inside the header of the second, which has a payload
C16_Witness ==
    /\ Len(cliMsgs) = MaxMsgs
    /\ cliMsgs[MaxMsgs] # <<>>
    /\ Len(delivered) = MaxMsgs - 1
    /\ m_inputBuf # <<>>
    /\ Len(m_inputBuf) < HeaderSize

\* the byte stream bytes is made of whole frames of send() calls, the calls
\* of one thread in the order that thread made them, followed by a part of
\* one more frame at most
WireInOrder(bytes) ==
    LET r == ExtractAll(bytes)
        Call(m) == CHOOSE d \in SendCalls : Payload(d) = m
    IN  /\ \A i \in 1..Len(r.msgs) :
             /\ \E d \in SendCalls : Payload(d) = r.msgs[i]
             /\ Call(r.msgs[i])[2] =
                    1 + Cardinality({j \in 1..(i - 1) :
                            Call(r.msgs[j])[1] = Call(r.msgs[i])[1]})
        /\ \E d \in SendCalls : IsPrefix(r.buf, appendWithSep(<<>>, Payload(d)))

C18_SingleWriter ==
    /\ mutators \subseteq {LoopThread}
    /\ \A th \in DOMAIN npc \ {LoopThread} : npc[th] \in {"idle", "wake"}

\* every other thread has called send(), the loop has run such a call and
\* has written bytes of it to the socket
C18_Witness ==
    /\ \A th \in SenderThreads : th \in DOMAIN ncalls /\ ncalls[th] > 0
    /\ execLog # <<>>
    /\ mutators = {LoopThread}
    /\ sockOut # <<>>

\* C19: the loop's thread runs the tasks given to pushToQueue in the order in
\* which they were pushed, whatever the interleaving of the pushing threads
\* with the loop's dispatch of ready channels.
C19_TaskQueueFifo == IsPrefix(execLog, pushLog)

\* tasks of two threads have been run, the loop has written to the socket in
\* between, and more tasks wait in the queue
C19_Witness ==
    /\ Len(execLog) >= 2
    /\ execLog[1][1] # execLog[2][1]
    /\ sockOut # <<>>
    /\ loopQueue # <<>>

C21_IdleConnSwept ==
    [][/\ (timerDue /\ ~timerDue' /\ now - m_lastATime > IdleLimit) =>
              (ConnFd \notin m_conns' /\ ConnFd \notin srvConns' /\ ~inEpoll')
       /\ ConnFd \notin m_conns => ConnFd \notin m_conns'
       /\ ConnFd \notin srvConns => ConnFd \notin srvConns']_vars

\* the sweep has closed a connection whose peer neither shut down nor failed
C21_Witness ==
    /\ ~peerHup
    /\ ~sockErr
    /\ now - m_lastATime > IdleLimit
    /\ ConnFd \notin m_conns
    /\ ConnFd \notin srvConns
    /\ closeCalls = 1

\* C22: once stop() has returned, the loop runs no task of its queue,
\* dispatches no event and writes nothing; and once m_stop is set, the thread
\* of the loop, blocked in poll or not, leaves the loop.
C22_LoopStops ==
    /\ [][lspc = "returned" =>
             /\ execLog' = execLog
             /\ batch' = batch
             /\ sockOut' = sockOut
             /\ m_outputBuf' = m_outputBuf
             /\ npc'[LoopThread] = npc[LoopThread]]_vars
    /\ loopStop ~> npc[LoopThread] = "stopped"

\* stop() has returned while a task that was pushed waits in the queue
C22_Witness ==
    /\ lspc = "returned"
    /\ npc[LoopThread] = "stopped"
    /\ loopQueue # <<>>
    /\ execLog # <<>>

C26_OneCallbackReadFirst ==
    /\ lastCb \in {"none", "read", "write", "close", "error"}
    /\ lastCb = "none" <=> lastEv = {}
    /\ "RDHUP" \in lastEv => lastCb = "close"
    /\ ("IN" \in lastEv /\ "RDHUP" \notin lastEv) => lastCb = "read"
    /\ (lastEv # {} /\ lastEv \cap {"IN", "RDHUP"} = {}) =>
           lastCb = (IF "OUT" \in lastEv THEN "write" ELSE "error")

\* events with read and write readiness have been handled by the read callback
C26_Witness ==
    /\ {"IN", "OUT"} \subseteq lastEv
    /\ lastCb = "read"
    /\ delivered # <<>>

\* C27: a call of pickMessage on a buffer without a complete message (mode 1:
\* fewer than four bytes, or fewer bytes after them than the header declares;
\* mode 2: no terminator) returns false and leaves the bytes as they were.
C27_IncompleteLeftInPlace ==
    LET b == pk.before
        incomplete ==
            IF pk.sep = 2
            THEN \A i \in 1..Len(b) - 3 :
                     <<b[i], b[i + 1], b[i + 2], b[i + 3]>> # <<13, 10, 13, 10>>
            ELSE \/ Len(b) < 4
                 \/ Len(b) - 4 < b[1] + 256 * b[2] + 65536 * b[3] + 16777216 * b[4]
    IN  (pk.calls > 0 /\ incomplete) =>
            (~pk.res.ok /\ pk.buf = b /\ pk.res.s = <<>>)

\* a second call found only the start of a message and left it in the buffer
C27_Witness ==
    /\ pk.calls = 2
    /\ ~pk.res.ok
    /\ pk.buf = pk.before
    /\ pk.buf # <<>>

\* C28: a fixed-mode pool constructed with no thread and a dynamic-mode pool
\* constructed with maxThreadNum = 0 are stopped: isRunning() is false, there
\* is no worker and no manager thread, the queue stays empty and no addTask
\* returns true.  A dynamic-mode pool constructed with minThreadNum = 0 <
\* maxThreadNum has exactly one worker until the manager first rebalances.
C28_ZeroThreadsStopped ==
    /\ ((~isDynamic /\ m_workers = {}) \/ (isDynamic /\ maxThreads = 0)) =>
           /\ m_stop
           /\ m_workers = {}
           /\ m_activeWorkers = 0
           /\ mpc = "none"
           /\ m_taskQueue = <<>>
           /\ pushed = 0
           /\ \A p \in DOMAIN pres : pres[p] # "true"
    /\ (isDynamic /\ minThreads = 0 /\ maxThreads > 0 /\ cycles = 0) =>
           (Cardinality(m_workers) = 1 /\ m_activeWorkers = 1 /\ ~m_stop)

\* addTask has returned false on a pool that was constructed stopped
C28_Witness ==
    /\ m_stop
    /\ m_workers = {}
    /\ calls = 2
    /\ \E p \in DOMAIN pres : pres[p] = "false" /\ pcause[p] = "stopped"

\* C29: a call of connect() or connectat() by a process that is not
\* whitelisted, made inside the time window, to an address and port that an
\* entry of the blacklist holds returns -1 with errno ECONNREFUSED and is not
\* passed to the original function.
C29_BlacklistedRefused ==
    LET c == shim.call
        t == shim.g_InterceptTime
        inWindow == IF t.start_time > t.end_time
                    THEN c.current >= t.start_time \/ c.current <= t.end_time
                    ELSE t.start_time <= c.current /\ c.current <= t.end_time
        listed == \E i \in 1..Len(shim.g_Blacklist) :
                      LET e == shim.g_Blacklist[i] IN
                      /\ e.port \in {0, c.port}
                      /\ e.ip = c.ip \/ (e.is_domain /\ c.ip \in c.dns)
    IN  (/\ shim.pc = "returned"
         /\ c.fam = "AF_INET"
         /\ ~is_proc_whitelisted(shim.proc, shim.g_WhitelistProcs)
         /\ inWindow
         /\ listed) =>
            (shim.ret = -1 /\ shim.errno = "ECONNREFUSED" /\ shim.origCalls = 0)

\* C30: a call of connect() to an address and port that no entry of the
\* blacklist holds, by its address, by its name or by "*", is passed to the
\* original connect once, and returns what the original returned.
C30_UnlistedForwarded ==
    LET c == shim.call
        listed == \E i \in 1..Len(shim.g_Blacklist) :
                      LET e == shim.g_Blacklist[i] IN
                      /\ e.port \in {0, c.port}
                      /\ \/ e.url = "*"
                         \/ e.ip = c.ip
                         \/ e.is_domain /\ c.ip \in c.dns
    IN  (shim.pc = "returned" /\ c.fn = "connect" /\ ~listed) =>
            (/\ shim.origCalls = 1
             /\ shim.ret = c.oret
             /\ c.oret = -1 => shim.errno = c.oerr)

\* inside the window, a connect() to an address of the blacklist on another
\* port than the entry's has been passed on and has failed as the original did
C30_Witness ==
    /\ shim.pc = "returned"
    /\ shim.call.fn = "connect"
    /\ shim.call.fam = "AF_INET"
    /\ shim.g_WhitelistProcs = {}
    /\ shim.call.current = 1
    /\ Len(shim.g_Blacklist) = 1
    /\ shim.g_Blacklist[1].ip = shim.call.ip
    /\ shim.g_Blacklist[1].port = 1
    /\ shim.call.port = 2
    /\ shim.origCalls = 1
    /\ shim.ret = -1
    /\ shim.errno = "ETIMEDOUT"

\* C31: inside the time window is_blocked returns true for every destination
\* when the blacklist holds the entry loaded from "*:*".
C31_WildcardBlocksAll ==
    LET c == shim.call IN
    (/\ shim.pc = "returned"
     /\ is_in_intercept_time(c.current, shim.g_InterceptTime)
     /\ \E i \in 1..Len(shim.g_Blacklist) :
            shim.g_Blacklist[i].url = "*" /\ shim.g_Blacklist[i].port = 0) =>
        is_blocked(shim.g_Blacklist, shim.g_InterceptTime, c.current,
                   c.ip, c.port, c.dns)

\* C32: a connect() made when the current time is outside the configured
\* window is never refused, whatever the blacklist holds: it is passed to the
\* original connect.  The window is start <= current <= end, and when
\* start > end it spans midnight (current >= start or current <= end); a
\* connect() made inside it by a process that is not whitelisted to an address
\* and port of the blacklist is refused.
C32_OnlyInsideWindow ==
    LET c == shim.call
        start == shim.g_InterceptTime.start_time
        end == shim.g_InterceptTime.end_time
        inside == (start > end /\ (c.current >= start \/ c.current <= end))
                  \/ (start <= end /\ start <= c.current /\ c.current <= end)
        listed == \E i \in 1..Len(shim.g_Blacklist) :
                      /\ shim.g_Blacklist[i].port \in {0, c.port}
                      /\ shim.g_Blacklist[i].ip = c.ip
    IN  (shim.pc = "returned" /\ c.fn = "connect") =>
            /\ ~inside => (/\ shim.origCalls = 1
                           /\ shim.ret = c.oret
                           /\ shim.errno # "ECONNREFUSED")
            /\ (/\ inside
                /\ listed
                /\ c.fam = "AF_INET"
                /\ shim.g_WhitelistProcs = {}) =>
                   (shim.ret = -1 /\ shim.errno = "ECONNREFUSED")

\* a window that spans midnight: a connect() to a blacklisted address at a
\* time between its end and its start has been passed on and has succeeded
C32_Witness ==
    /\ shim.pc = "returned"
    /\ shim.call.fn = "connect"
    /\ shim.call.fam = "AF_INET"
    /\ shim.g_WhitelistProcs = {}
    /\ shim.g_InterceptTime.start_time > shim.g_InterceptTime.end_time
    /\ shim.call.current > shim.g_InterceptTime.end_time
    /\ shim.call.current < shim.g_InterceptTime.start_time
    /\ Len(shim.g_Blacklist) = 1
    /\ shim.g_Blacklist[1].ip = shim.call.ip
    /\ shim.g_Blacklist[1].port = 0
    /\ shim.origCalls = 1
    /\ shim.ret = 0

\* C37: the body of load_config runs for one caller only, and every connect()
\* decides on the whitelist, the time window and the blacklist as they are
\* once the whole file has been read.
C37_DecidedOnLoadedConfig ==
    /\ fc.bodies <= 1
    /\ \A th \in ShimThreads :
           fc.tpc[th] = "returned" =>
               fc.res[th] = Decision(ReadLines(FirstCallsOf(fc.lines), 1), fc.call[th])

\* C33: on a pool that is never stopped, every task that addTask has put in
\* the queue is eventually executed by a worker, as long as the process runs.
C33_AcceptedEventuallyRuns ==
    \A k \in 1..LoadTasks : (pushed >= k /\ Alive) ~> (k \in executed \/ ~Alive)

\* C34: on a running pool, whenever a producer is parked in the wait of the
\* block policy and the queue has free space, a producer has been notified:
\* a worker that frees a slot wakes a waiting producer, whatever the policy
\* is by then.
C34_BlockedProducerWoken ==
    \A p \in DOMAIN ppc :
        (/\ ppc[p] = "parked"
         /\ pwait[p] = "block"
         /\ ~m_stop
         /\ Len(m_taskQueue) < m_maxQueueSize) =>
            \E q \in DOMAIN ppc : ppc[q] = "woken"

\* C35: with maxQueueSize > 0 the task queue never holds more than
\* maxQueueSize tasks.
C35_QueueBounded ==
    m_maxQueueSize > 0 => Len(m_taskQueue) <= m_maxQueueSize

\* the queue is full, one producer has just filled it and another, which
\* began to wait under the timeout policy, has timed out after the policy
\* was changed
C35_Witness ==
    /\ m_maxQueueSize > 0
    /\ Len(m_taskQueue) = m_maxQueueSize
    /\ m_queueFullPolicy # "kTimeout"
    /\ \E p, q \in QueueProducers :
          /\ p # q
          /\ ppc[p] = "timedout"
          /\ ppc[q] = "notify"
          /\ m_taskQueue[Len(m_taskQueue)] = ptask[q]

\* C38: the queue holds the tasks in the order addTask pushed them, and a
\* worker always takes the task at its front, which was pushed after every task
\* taken before it; a task that a worker holds is in the queue no more, is
\* held by no other worker and has not been executed, and no executed task is
\* in the queue: each task is handed to one worker and runs at most once.
C38_FifoExactlyOnce ==
    /\ [](\A i, j \in DOMAIN m_taskQueue : i < j => m_taskQueue[i] < m_taskQueue[j])
    /\ [](\A w \in ThreadIds :
            wtask[w] # 0 =>
                /\ wtask[w] \notin Range(m_taskQueue)
                /\ wtask[w] \notin executed
                /\ \A v \in ThreadIds \ {w} : wtask[v] # wtask[w])
    /\ [](executed \cap Range(m_taskQueue) = {})
    /\ [][\A w \in ThreadIds :
            (wtask'[w] # wtask[w] /\ wtask'[w] # 0) =>
                /\ m_taskQueue # <<>>
                /\ wtask'[w] = m_taskQueue[1]
                /\ m_taskQueue' = SubSeq(m_taskQueue, 2, Len(m_taskQueue))
                /\ \A t \in executed : t < wtask'[w]
                /\ \A v \in ThreadIds : wtask[v] < wtask'[w]]_vars

\* two workers hold two tasks at the same time, the one pushed first having
\* been taken first, while a third task waits in the queue
C38_Witness ==
    /\ ~m_stop
    /\ Len(m_taskQueue) = 1
    /\ \E w, v \in ThreadIds :
          /\ w # v
          /\ wpc[w] = "run"
          /\ wpc[v] = "run"
          /\ wtask[w] = 1
          /\ wtask[v] = 2
          /\ m_taskQueue[1] = 3

\* C39: whenever the manager, in its scale step, takes the scale-up branch
\* and evaluates (taskCount + workerCount - 1) / workerCount, workerCount is
\* at least 1.
C39_DivisorPositive ==
    [][(/\ mpc = "scale"
        /\ mpc' # "scale"
        /\ ScaleUpCond(Len(m_taskQueue), Cardinality(m_workers))) =>
            Cardinality(m_workers) >= 1]_vars

\* the mutex a thread is about to lock, if any, and the threads it is about
\* to join
Wants(t) ==
    IF t = ManagerT
    THEN CASE lk.pc[t] = "top" ->
                IF lk.m_stop THEN {"workerExitId_dequeMutex"} ELSE {"managerMutex"}
           [] lk.pc[t] = "wait" -> IF lk.m_stop THEN {} ELSE {"m_workersMutex"}
           [] lk.pc[t] = "lockExit" -> {"workerExitId_dequeMutex"}
           [] lk.pc[t] = "lockQueue" -> {"m_taskQueueMutex"}
           [] lk.pc[t] = "lockWorkers" -> {"m_workersMutex"}
           [] OTHER -> {}
    ELSE IF t = StopT
    THEN CASE lk.pc[t] = "lockExit" -> {"workerExitId_dequeMutex"}
           [] lk.pc[t] = "lockWorkers" -> {"m_workersMutex"}
           [] OTHER -> {}
    ELSE IF t \in LockWorkerThreads
    THEN CASE lk.pc[t] = "top" -> IF lk.m_stop THEN {} ELSE {"m_taskQueueMutex"}
           [] lk.pc[t] = "parked" -> {"m_taskQueueMutex"}
           [] lk.pc[t] = "lockExit" -> {"workerExitId_dequeMutex"}
           [] OTHER -> {}
    ELSE {}
Joins(t) ==
    IF t = ManagerT /\ lk.pc[t] = "join"
    THEN {w \in lk.exitIds \cap lk.m_workers : lk.pc[w] # "done"}
    ELSE IF t = StopT /\ lk.pc[t] = "joinMgr"
    THEN {u \in {ManagerT} : lk.pc[u] # "done"}
    ELSE IF t = StopT /\ lk.pc[t] = "join"
    THEN {w \in lk.m_workers : lk.pc[w] # "done"}
    ELSE {}
\* the threads that must take a step before t can take its next one
Blockers(t) == ({lk.owner[m] : m \in Wants(t)} \ {Free}) \cup Joins(t)

\* C36: no set of pool threads is such that each of them waits, for a mutex
\* or in a join, for another thread of the set; and a thread that holds a
\* mutex locks only mutexes that come later in the order managerMutex,
\* m_taskQueueMutex, m_workersMutex, workerExitId_dequeMutex.
C36_NoMutexDeadlock ==
    LET rank == [m \in Mutexes |->
                   CASE m = "managerMutex" -> 1
                     [] m = "m_taskQueueMutex" -> 2
                     [] m = "m_workersMutex" -> 3
                     [] m = "workerExitId_dequeMutex" -> 4]
    IN  /\ \A S \in SUBSET LockThreads :
               S # {} => \E t \in S : Blockers(t) \cap S = {}
        /\ \A t \in LockThreads : \A h \in Held(t) : \A m \in Wants(t) :
               rank[h] < rank[m]

\* the manager holds managerMutex and m_taskQueueMutex and waits for
\* m_workersMutex, which a thread inside getWorkerNum holds, while a worker
\* waits for m_taskQueueMutex and stop() has not been called
C36_Witness ==
    /\ ~lk.m_stop
    /\ lk.pc[ManagerT] = "lockWorkers"
    /\ Held(ManagerT) = {"managerMutex", "m_taskQueueMutex"}
    /\ lk.owner["m_workersMutex"] = GetterT
    /\ \E w \in LockWorkerThreads : lk.pc[w] \in {"top", "parked"}

====
